---- MODULE Spec2Model ----
(***************************************************************************)
(* Model of the OpenWrt router client of portracker                        *)
(* (backend/lib/openwrt-api.js): the SSH+UCI driver, the JSON-RPC driver   *)
(* and the unified OpenWrtClient that selects one of them, together with   *)
(* the router's firewall configuration they act on.  Every remote request  *)
(* (one SSH exec, one HTTP POST) is one step; the requests an operation    *)
(* has issued are kept in `log`.                                           *)
(***************************************************************************)
EXTENDS Integers, Sequences, FiniteSets, TLC

VARIABLES
  router,          \* what the router accepts: [ssh, login, call]
  faults,          \* requests so far that failed although the router accepts them
  staged,          \* redirect sections of the firewall config, staged view
  committed,       \* redirect sections of the committed firewall config
  connectionMode,  \* OpenWrtClient.connectionMode
  sshClient,       \* OpenWrtClient.sshClient is not null
  rpcClient,       \* OpenWrtClient.rpcClient is not null
  authToken,       \* OpenWrtRpcClient.authToken of this.rpcClient
  op,              \* the public method in progress, "idle" between calls
  pc,              \* position inside the method in progress
  arg,             \* argument of the method in progress / last finished
  locals,          \* local variables of the driver method in progress
  log,             \* remote requests issued by the method, in order
  result,          \* outcome of the last finished method
  pre,             \* connectionMode when the method was called
  lastInit,        \* how the most recent initialize() ended
  execs,           \* SshUciClient.exec calls: position and promise of each
  conns,           \* the ssh2 Client objects created so far: state of each
  plain,           \* the password last given to encrypt
  triple,          \* what encrypt returned: { encrypted, iv, tag } or its error
  changed,         \* the triple was modified after encrypt returned it
  opened,          \* what decrypt returned for the triple, or its error
  configs,         \* rows of the table router_config
  forwardings,     \* rows of the table port_forwardings
  route,           \* the route handler awaiting the router client, if any
  response,        \* the last response a route handler sent
  calls,           \* the fetch requests of the RPC clients, with the time each has waited
  url,             \* the address last given to parseRouterUrl, by its components
  parsed           \* what parseRouterUrl returned for it

vars == <<router, faults, staged, committed, connectionMode, sshClient, rpcClient,
          authToken, op, pc, arg, locals, log, result, pre, lastInit,
          execs, conns, plain, triple, changed, opened,
          configs, forwardings, route, response, calls, url, parsed>>

routerVars == <<staged, committed>>
clientVars == <<connectionMode, sshClient, rpcClient, authToken>>
execVars == <<execs, conns>>
cryptoVars == <<plain, triple, changed, opened>>
dbVars == <<configs, forwardings>>
routeVars == <<dbVars, route, response>>
rpcVars == <<calls>>
parseVars == <<url, parsed>>

\* The client, the router and the request log of the method in progress.
apiVars == <<router, faults, staged, committed, connectionMode, sshClient, rpcClient,
             authToken, op, pc, arg, locals, log, result, pre, lastInit>>

\* What each of the finer views leaves alone.
besidesExec == <<apiVars, cryptoVars, routeVars, rpcVars, parseVars>>
besidesCrypto == <<apiVars, execVars, routeVars, rpcVars, parseVars>>
besidesRoutes == <<execVars, cryptoVars, rpcVars, parseVars>>
besidesRpc == <<apiVars, execVars, cryptoVars, routeVars, parseVars>>
besidesParse == <<apiVars, execVars, cryptoVars, routeVars, rpcVars>>

\* What the methods of OpenWrtClient, seen request by request, leave alone.
appVars == <<execVars, cryptoVars, routeVars, rpcVars, parseVars>>

----------------------------------------------------------------------------
(* Bounds of the model *)

MaxSections == 1      \* redirect sections the staged configuration may hold
MaxFaults == 1        \* requests that fail in transit although the router accepts them
MaxExecs == 3         \* SshUciClient.exec calls followed event by event
MaxListed == 2        \* redirect sections of a router whose rules are listed
MaxPwLen == 2         \* UTF-16 code units of a password given to encrypt
MaxConfigs == 2       \* rows of router_config
MaxForwardings == 2   \* rows of port_forwardings
MaxCalls == 2         \* fetch requests followed from issue to settlement
MaxTicks == 3         \* ticks of the clock a request is followed for
MaxForeign == 1       \* redirect sections somebody else adds during an add
MaxPortDigits == 2    \* digits of the port written in an address
MaxBatch == 2         \* forwardingIds of one batch request

(* Program constants *)

UciNameMax == 32      \* generateUciName: .substring(0, 32)
PortMax == 65535      \* isValidPort: port <= 65535
OctetMax == 255       \* isValidIpAddress: 25[0-5] is the largest octet
IV_LENGTH == 16       \* router-encryption: bytes of a fresh iv
TAG_LENGTH == 16      \* router-encryption: bytes of the tag getAuthTag() returns
DEFAULT_TIMEOUT == 10000   \* openwrt-api: config.timeout || DEFAULT_TIMEOUT (ms)
DefaultSshPort == 22  \* parseRouterUrl: let port = 22
TickMs == 5000        \* milliseconds in one tick of the clock
SshDefaultTimeout == 15000   \* timeout of an SshUciClient built without one

Null == "null"
Token == "tok"

----------------------------------------------------------------------------
(* Pure helpers of openwrt-api.js *)

Chars == {"w", "W", "b", " ", "_"}

ToLowerCase(c) == IF c = "W" THEN "w" ELSE c

IsUciChar(c) == c \in {"w", "b", "_"}

RECURSIVE MapName(_)
MapName(s) ==
  IF s = <<>> THEN <<>>
  ELSE LET c == ToLowerCase(Head(s))
       IN <<IF IsUciChar(c) THEN c ELSE "_">> \o MapName(Tail(s))

Substring(s, n) == IF Len(s) <= n THEN s ELSE SubSeq(s, 1, n)

generateUciName(name) == Substring(MapName(name), UciNameMax)

PortForward == <<"p", "o", "r", "t", "_", "f", "o", "r", "w", "a", "r", "d">>

isValidIpAddress(ip) ==
  /\ Len(ip) = 4
  /\ \A i \in 1..Len(ip) : ip[i] >= 0 /\ ip[i] <= OctetMax

isValidPort(port) == port >= 1 /\ port <= PortMax

----------------------------------------------------------------------------
(* The router: what it accepts, and its firewall redirect sections *)

\* router.ssh   : SSH password authentication is accepted
\* router.login : the luci-mod-rpc login method accepts the credentials
\* router.call  : the RPC endpoint answers uci calls with a success status
\* A request the router accepts may still fail in transit.
RouterProfiles == [ssh : BOOLEAN, login : BOOLEAN, call : BOOLEAN]

\* The options addRedirect sets and getRedirects reads, in the code's order.
Options == <<"name", "target", "src", "dest", "proto", "src_dport",
             "dest_ip", "dest_port", "enabled">>

OptionSet == {Options[i] : i \in 1..Len(Options)}

\* A redirect section: secname is <<>> for an anonymous section.
Section(secname, opts, nameval) ==
  [secname |-> secname, opts |-> opts, nameval |-> nameval]

DbName == <<"d", "b">>

InitialConfigs == { <<>>, <<Section(DbName, OptionSet, DbName)>> }

\* `uci show firewall | grep '=redirect'`: a named section is shown under its
\* name, an anonymous one as @redirect[i] (i counted from 0).
ShownId(secs, i) ==
  IF secs[i].secname # <<>> THEN [named |-> TRUE, n |-> secs[i].secname, i |-> 0]
  ELSE [named |-> FALSE, n |-> <<>>, i |-> i - 1]

NamedId(n) == [named |-> TRUE, n |-> n, i |-> 0]
IndexId(i) == [named |-> FALSE, n |-> <<>>, i |-> i]

\* Positions of the sections that `firewall.<id>` designates.
Resolve(secs, id) ==
  IF id.named THEN {k \in 1..Len(secs) : secs[k].secname = id.n}
  ELSE {k \in 1..Len(secs) : k = id.i + 1}

RemoveAt(secs, k) ==
  [j \in 1..(Len(secs) - 1) |-> IF j < k THEN secs[j] ELSE secs[j + 1]]

\* uci add firewall redirect
UciAdd(secs) == Append(secs, Section(<<>>, {}, <<>>))

\* uci set firewall.@redirect[-1].<opt>='<val>'
UciSetLast(secs, opt, val) ==
  [secs EXCEPT ![Len(secs)] =
     [@ EXCEPT !.opts = @ \cup {opt},
               !.nameval = IF opt = "name" THEN val ELSE @]]

\* uci delete firewall.<id>
UciDelete(secs, id) == RemoveAt(secs, CHOOSE k \in Resolve(secs, id) : TRUE)

----------------------------------------------------------------------------
(* Remote requests and their outcomes *)

Req(t, cmd, opt, out) == [t |-> t, cmd |-> cmd, opt |-> opt, out |-> out]

\* SshUciClient.exec: resolves when the stream closes with code 0 ("ok"),
\* rejects on another exit code ("exit") or on a connection, authentication
\* or exec error ("conn").  Commands ending in `|| true` or `| head -1`
\* exit 0 whenever the shell ran them.
ExecOutcomes(cmd) ==
  IF ~router.ssh THEN {"conn"}
  ELSE IF faults >= MaxFaults THEN {"ok"}
  ELSE IF cmd \in {"probe", "reload"} THEN {"ok", "conn"}
  ELSE {"ok", "exit", "conn"}

\* OpenWrtRpcClient.authenticate: "ok" stores the token, "http" is a
\* non-success status, "error" an error payload.
LoginOutcomes ==
  IF ~router.login THEN {"http", "error"}
  ELSE IF faults >= MaxFaults THEN {"ok"}
  ELSE {"ok", "http"}

\* OpenWrtRpcClient.callRpc: throws on a non-success status.
CallOutcomes ==
  IF ~router.call THEN {"http"}
  ELSE IF faults >= MaxFaults THEN {"ok"}
  ELSE {"ok", "http"}

Accepts(t, cmd) ==
  IF t = "ssh" THEN router.ssh
  ELSE IF cmd = "login" THEN router.login
  ELSE router.call

----------------------------------------------------------------------------
(* Results of the public methods *)

NoRules == <<>>

Res(status, success, id, mode, rules, err) ==
  [status |-> status, success |-> success, id |-> id, mode |-> mode,
   rules |-> rules, err |-> err]

NoResult == Res("none", FALSE, Null, Null, NoRules, Null)
Returned(success, id, mode, rules) == Res("ok", success, id, mode, rules, Null)
Thrown(err) == Res("throw", FALSE, Null, Null, NoRules, err)

NoArg == [kind |-> "none"]

\* Nothing encrypted, nothing decrypted yet.
NoTriple == [status |-> "none", encrypted |-> <<>>, iv |-> <<>>, tag |-> <<>>]
NotOpened == [status |-> "none", value |-> <<>>]

\* No exec followed, no password handled.
ExecIdle == execs = <<>> /\ conns = <<>>
CryptoIdle == plain = <<>> /\ triple = NoTriple /\ changed = FALSE /\ opened = NotOpened

\* No route handler in progress, none answered yet.
NoRoute == [kind |-> "idle"]
NoResponse == [handler |-> "none", status |-> 0]
RoutesIdle == route = NoRoute /\ response = NoResponse
DbEmpty == configs = <<>> /\ forwardings = <<>>

\* No fetch issued yet.
RpcIdle == calls = <<>>

\* No address parsed yet.
NoUrl == [scheme |-> <<>>, host |-> <<>>, port |-> <<>>, path |-> <<>>]
NotParsed == [hostname |-> <<>>, port |-> 0]
ParseIdle == url = NoUrl /\ parsed = NotParsed

AppIdle == ExecIdle /\ CryptoIdle /\ RoutesIdle /\ DbEmpty /\ RpcIdle /\ ParseIdle
NoLocals == [uciName |-> <<>>, lines |-> <<>>, rules |-> <<>>, i |-> 0, k |-> 0]

Snapshot == [mode |-> connectionMode]

\* A method returns or throws: the client is idle again.
Finish(r) ==
  /\ op' = "idle"
  /\ pc' = "-"
  /\ result' = r

\* The method `name` was the last one called and has returned or thrown.
Finished(name) == op = "idle" /\ arg.kind = name

\* A method is called: nothing issued yet, the state at the call remembered.
Begin(name, a) ==
  /\ op = "idle"
  /\ arg' = [kind |-> name, a |-> a]
  /\ log' = <<>>
  /\ pre' = Snapshot
  /\ faults' = faults

\* A client just constructed, and the router it is to manage.
ApiInit ==
  /\ router \in RouterProfiles
  /\ faults = 0
  /\ staged \in InitialConfigs
  /\ committed = staged
  /\ connectionMode \in {"auto", "ssh", "rpc"}   \* config.connectionMode || 'auto'
  /\ sshClient = FALSE
  /\ rpcClient = FALSE
  /\ authToken = Null
  /\ op = "idle"
  /\ pc = "-"
  /\ arg = NoArg
  /\ locals = NoLocals
  /\ log = <<>>
  /\ result = NoResult
  /\ pre = [mode |-> connectionMode]
  /\ lastInit = "none"

Init == ApiInit /\ AppIdle

\* The method goes on to await its next remote request.
Goto(name, label) ==
  /\ op' = name
  /\ pc' = label
  /\ result' = NoResult

\* One request is issued and answered: `raw` is what the transport did,
\* `out` what the caller of exec / fetch sees.
Issue(t, cmd, opt, raw, out) ==
  /\ log' = Append(log, Req(t, cmd, opt, out))
  /\ faults' = IF raw # "ok" /\ Accepts(t, cmd) THEN faults + 1 ELSE faults

----------------------------------------------------------------------------
(* SshUciClient.testConnection and OpenWrtRpcClient construction *)

\* SshUciClient.testConnection catches every error of exec: it never throws
\* and reports the outcome in `success`.
SshTestConnection(out) == [threw |-> FALSE, success |-> (out = "ok")]

\* new OpenWrtRpcClient(...): authToken starts null.
NewRpcClient ==
  /\ rpcClient' = TRUE
  /\ authToken' = Null

----------------------------------------------------------------------------
(* OpenWrtClient.initialize *)

\* if (this.connectionMode === 'ssh') ... if (this.connectionMode === 'rpc') ...
IsExplicitMode(mode) == mode \in {"ssh", "rpc"}

\* Mutant: a successful SSH probe does not end the detection.
SshProbeBinds_Never(r) == FALSE

\* if (sshResult.success) { this.connectionMode = 'ssh'; return; }
SshProbeBinds(r) == ~r.threw /\ r.success

\* Mutant: the RPC branch returns without recording the mode.
BindRpc_Skip == UNCHANGED connectionMode

\* this.connectionMode = 'rpc'
BindRpc == connectionMode' = "rpc"

InitializeCall ==
  /\ Begin("initialize", <<>>)
  /\ locals' = NoLocals
  /\ UNCHANGED <<router, appVars, routerVars, connectionMode>>
  /\ IF IsExplicitMode(connectionMode)
     THEN /\ IF connectionMode = "ssh"
             THEN sshClient' = TRUE /\ UNCHANGED <<rpcClient, authToken>>
             ELSE NewRpcClient /\ UNCHANGED sshClient
          /\ Finish(Returned(TRUE, Null, Null, NoRules))
          /\ lastInit' = "ok"
     ELSE /\ sshClient' = TRUE
          /\ UNCHANGED <<rpcClient, authToken>>
          /\ Goto("initialize", "sshProbe")
          /\ lastInit' = "running"

InitSshProbe ==
  /\ op = "initialize" /\ pc = "sshProbe"
  /\ \E out \in ExecOutcomes("probe") :
       /\ Issue("ssh", "probe", "", out, out)
       /\ IF SshProbeBinds(SshTestConnection(out))
          THEN /\ connectionMode' = "ssh"
               /\ Finish(Returned(TRUE, Null, Null, NoRules))
               /\ lastInit' = "ok"
               /\ UNCHANGED <<rpcClient, authToken>>
          ELSE /\ IF rpcClient THEN UNCHANGED <<rpcClient, authToken>> ELSE NewRpcClient
               /\ Goto("initialize", "rpcLogin")
               /\ UNCHANGED <<connectionMode, lastInit>>
  /\ UNCHANGED <<router, appVars, routerVars, sshClient, arg, locals, pre>>

\* rpcClient.testConnection(): authenticate()
InitRpcLogin ==
  /\ op = "initialize" /\ pc = "rpcLogin"
  /\ \E out \in LoginOutcomes :
       /\ Issue("rpc", "login", "", out, out)
       /\ IF out = "ok"
          THEN /\ authToken' = Token
               /\ Goto("initialize", "rpcCall")
               /\ UNCHANGED lastInit
          ELSE /\ Finish(Thrown("unable to connect"))
               /\ lastInit' = "unreachable"
               /\ UNCHANGED authToken
  /\ UNCHANGED <<router, appVars, routerVars, connectionMode, sshClient, rpcClient,
                 arg, locals, pre>>

\* rpcClient.testConnection(): callRpc('call', [..., 'get', ['system', 'info']])
InitRpcCall ==
  /\ op = "initialize" /\ pc = "rpcCall"
  /\ \E out \in CallOutcomes :
       /\ Issue("rpc", "call", "", out, out)
       /\ IF out = "ok"
          THEN Goto("initialize", "rpcLogin2") /\ UNCHANGED lastInit
          ELSE Finish(Thrown("unable to connect")) /\ lastInit' = "unreachable"
  /\ UNCHANGED <<router, appVars, routerVars, clientVars, arg, locals, pre>>

\* rpcResult.success: await this.rpcClient.authenticate(), then bind 'rpc'
InitRpcLogin2 ==
  /\ op = "initialize" /\ pc = "rpcLogin2"
  /\ \E out \in LoginOutcomes :
       /\ Issue("rpc", "login", "", out, out)
       /\ IF out = "ok"
          THEN /\ authToken' = Token
               /\ BindRpc
               /\ Finish(Returned(TRUE, Null, Null, NoRules))
               /\ lastInit' = "ok"
          ELSE /\ Finish(Thrown("unable to connect"))
               /\ lastInit' = "authfail"
               /\ UNCHANGED <<authToken, connectionMode>>
  /\ UNCHANGED <<router, appVars, routerVars, sshClient, rpcClient, arg, locals, pre>>

----------------------------------------------------------------------------
(* OpenWrtClient.testConnection *)

TestConnectionCall ==
  /\ Begin("testConnection", <<>>)
  /\ locals' = NoLocals
  /\ Goto("testConnection", "sshProbe")
  /\ UNCHANGED <<router, appVars, routerVars, clientVars, lastInit>>

\* The SSH driver's testConnection never throws, so the try block always
\* runs to its return: the catch block and the JSON-RPC part are not reached.
TestSshProbe ==
  /\ op = "testConnection" /\ pc = "sshProbe"
  /\ \E out \in ExecOutcomes("probe") :
       /\ Issue("ssh", "probe", "", out, out)
       /\ LET r == SshTestConnection(out)
          IN IF ~r.threw
             THEN /\ sshClient' = TRUE
                  /\ connectionMode' = "ssh"
                  /\ Finish(Returned(r.success, Null, "ssh", NoRules))
             ELSE /\ UNCHANGED <<sshClient, connectionMode>>
                  /\ Finish(Returned(FALSE, Null, "ssh", NoRules))
  /\ UNCHANGED <<router, appVars, routerVars, rpcClient, authToken, arg, locals, pre, lastInit>>

----------------------------------------------------------------------------
(* Inputs offered to the public methods *)

RuleNames == {<<>>, <<"W", " ", "b">>}

AddConfig(name, ip, eport, iport) ==
  [name |-> name, internalIp |-> ip, externalPort |-> eport, internalPort |-> iport]

AddConfigs ==
  { AddConfig(<<"W", " ", "b">>, <<10, 0, 0, 5>>, 8080, 80),
    AddConfig(<<>>, <<999, 1, 1, 1>>, 80, 80),
    AddConfig(<<"W", " ", "b">>, <<10, 0, 0, 5>>, 0, 80),
    AddConfig(<<"W", " ", "b">>, <<10, 0, 0, 5>>, 80, 65536) }

DeleteIds ==
  {NamedId(generateUciName(n)) : n \in RuleNames \ {<<>>}}
    \cup {NamedId(DbName), IndexId(0)}

ValidConfig(c) ==
  /\ isValidIpAddress(c.internalIp)
  /\ isValidPort(c.externalPort)
  /\ isValidPort(c.internalPort)

----------------------------------------------------------------------------
(* SshUciClient.getRedirects, reached through getPortForwardings *)

\* What the remote command does with the router in its present state: a
\* command that reaches the shell can still exit non-zero.
ShowExit(out) == IF out = "ok" /\ staged = <<>> THEN "exit" ELSE out

GetExit(out, id, opt) ==
  IF out # "ok" THEN out
  ELSE IF Resolve(staged, id) = {} THEN "exit"
  ELSE IF opt \notin staged[CHOOSE k \in Resolve(staged, id) : TRUE].opts THEN "exit"
  ELSE "ok"

\* name || `Redirect ${uciName...}`
Digits == <<"0", "1", "2", "3", "4", "5", "6", "7", "8", "9">>

\* uciName.replace('@redirect[', '').replace(']', '')
IdText(id) == IF id.named THEN id.n ELSE <<Digits[id.i + 1]>>

RuleOf(id, nameval) ==
  [id |-> id,
   name |-> IF nameval # <<>> THEN nameval ELSE <<"R", " ">> \o IdText(id)]

\* getRedirects catches every error and returns [].
GetRedirectsFailed == Finish(Returned(TRUE, Null, "ssh", NoRules))

GetPortForwardingsCall ==
  /\ Begin("getPortForwardings", <<>>)
  /\ locals' = NoLocals
  /\ UNCHANGED <<router, appVars, routerVars, clientVars, lastInit>>
  /\ IF connectionMode = "ssh"
     THEN IF sshClient
          THEN Goto("getPortForwardings", "show")
          ELSE Finish(Thrown("TypeError"))
     ELSE IF rpcClient
          THEN Goto("getPortForwardings", "rpcGet")
          ELSE Finish(Thrown("TypeError"))

\* this.rpcClient.uci('get', ['firewall']); return { local: [], mode: 'rpc' }
GetRpcCall ==
  /\ op = "getPortForwardings" /\ pc = "rpcGet"
  /\ \E out \in CallOutcomes :
       /\ Issue("rpc", "call", "", out, out)
       /\ IF out = "ok"
          THEN Finish(Returned(TRUE, Null, "rpc", NoRules))
          ELSE Finish(Thrown("http"))
  /\ UNCHANGED <<router, appVars, routerVars, clientVars, arg, locals, pre, lastInit>>

\* exec("uci show firewall 2>/dev/null | grep '=redirect'")
GetShow ==
  /\ op = "getPortForwardings" /\ pc = "show"
  /\ \E o \in ExecOutcomes("show") :
       LET out == ShowExit(o)
       IN /\ Issue("ssh", "show", "", o, out)
          /\ IF out = "ok"
             THEN /\ locals' = [locals EXCEPT
                                  !.lines = [i \in 1..Len(staged) |-> ShownId(staged, i)],
                                  !.rules = <<>>, !.i = 1, !.k = 1]
                  /\ Goto("getPortForwardings", "get")
             ELSE /\ GetRedirectsFailed
                  /\ UNCHANGED locals
  /\ UNCHANGED <<router, appVars, routerVars, clientVars, arg, pre, lastInit>>

\* exec(`uci get firewall.${uciName}.<option> 2>/dev/null`), nine per section
GetOption ==
  /\ op = "getPortForwardings" /\ pc = "get"
  /\ \E o \in ExecOutcomes("get") :
       LET id == locals.lines[locals.i]
           opt == Options[locals.k]
           out == GetExit(o, id, opt)
           sec == staged[CHOOSE k \in Resolve(staged, id) : TRUE]
           rules == Append(locals.rules, RuleOf(id, sec.nameval))
       IN /\ Issue("ssh", "get", opt, o, out)
          /\ IF out # "ok"
             THEN GetRedirectsFailed /\ UNCHANGED locals
             ELSE IF locals.k < Len(Options)
             THEN /\ locals' = [locals EXCEPT !.k = @ + 1]
                  /\ Goto("getPortForwardings", "get")
             ELSE IF locals.i < Len(locals.lines)
             THEN /\ locals' = [locals EXCEPT !.rules = rules, !.i = @ + 1, !.k = 1]
                  /\ Goto("getPortForwardings", "get")
             ELSE /\ locals' = [locals EXCEPT !.rules = rules]
                  /\ Finish(Returned(TRUE, Null, "ssh", rules))
  /\ UNCHANGED <<router, appVars, routerVars, clientVars, arg, pre, lastInit>>

----------------------------------------------------------------------------
(* SshUciClient.addRedirect, reached through addPortForwarding *)

\* generateUciName(config.name || 'port_forward')
UciNameOf(c) == generateUciName(IF c.name # <<>> THEN c.name ELSE PortForward)

\* The value the k-th `uci set` writes.
OptionValue(k, c, uciName) ==
  IF Options[k] = "name" THEN uciName ELSE <<>>

\* `uci set firewall.@redirect[-1]...` needs a redirect section to exist.
SetExit(out) == IF out = "ok" /\ staged = <<>> THEN "exit" ELSE out

\* addPortForwarding(config), up to its first remote request, on a router
\* that holds fewer than `cap` redirect sections
AddPortForwardingUpTo(c, cap) ==
  /\ Begin("addPortForwarding", c)
  /\ IF connectionMode = "ssh"
     THEN IF sshClient
          THEN /\ Len(staged) < cap
               /\ locals' = [NoLocals EXCEPT !.uciName = UciNameOf(c)]
               /\ Goto("addPortForwarding", "add")
          ELSE /\ locals' = NoLocals
               /\ Finish(Thrown("TypeError"))
     ELSE /\ locals' = NoLocals
          /\ Finish(Thrown("not implemented"))
  /\ UNCHANGED <<router, routerVars, clientVars, lastInit>>

AddPortForwarding(c) == AddPortForwardingUpTo(c, MaxSections)

AddPortForwardingCall ==
  /\ \E c \in AddConfigs : AddPortForwarding(c)
  /\ UNCHANGED appVars

\* exec(`uci add firewall redirect`)
AddSection ==
  /\ op = "addPortForwarding" /\ pc = "add"
  /\ \E out \in ExecOutcomes("add") :
       /\ Issue("ssh", "add", "", out, out)
       /\ IF out = "ok"
          THEN /\ staged' = UciAdd(staged)
               /\ locals' = [locals EXCEPT !.k = 1]
               /\ Goto("addPortForwarding", "set")
          ELSE /\ Finish(Thrown(out))
               /\ UNCHANGED <<staged, locals>>
  /\ UNCHANGED <<router, appVars, committed, clientVars, arg, pre, lastInit>>

\* exec(`uci set firewall.@redirect[-1].<option>='...'`), nine in a row
AddSetOption ==
  /\ op = "addPortForwarding" /\ pc = "set"
  /\ \E o \in ExecOutcomes("set") :
       LET out == SetExit(o)
           opt == Options[locals.k]
       IN /\ Issue("ssh", "set", opt, o, out)
          /\ IF out = "ok"
             THEN /\ staged' = UciSetLast(staged, opt,
                                          OptionValue(locals.k, arg.a, locals.uciName))
                  /\ IF locals.k < Len(Options)
                     THEN /\ locals' = [locals EXCEPT !.k = @ + 1]
                          /\ Goto("addPortForwarding", "set")
                     ELSE /\ UNCHANGED locals
                          /\ Goto("addPortForwarding", "commit")
             ELSE /\ Finish(Thrown(out))
                  /\ UNCHANGED <<staged, locals>>
  /\ UNCHANGED <<router, appVars, committed, clientVars, arg, pre, lastInit>>

\* exec('uci commit firewall')
AddCommit ==
  /\ op = "addPortForwarding" /\ pc = "commit"
  /\ \E out \in ExecOutcomes("commit") :
       /\ Issue("ssh", "commit", "", out, out)
       /\ IF out = "ok"
          THEN /\ committed' = staged
               /\ Goto("addPortForwarding", "reload")
          ELSE /\ Finish(Thrown(out))
               /\ UNCHANGED committed
  /\ UNCHANGED <<router, appVars, staged, clientVars, arg, locals, pre, lastInit>>

\* A rejected exec is not caught by addRedirect / deleteRedirect.
ReloadOutcome(out, r) == IF out = "ok" THEN r ELSE Thrown(out)

\* exec('/etc/init.d/firewall restart 2>/dev/null || true'); return { success, id }
AddReload ==
  /\ op = "addPortForwarding" /\ pc = "reload"
  /\ \E out \in ExecOutcomes("reload") :
       /\ Issue("ssh", "reload", "", out, out)
       /\ Finish(ReloadOutcome(out, Returned(TRUE, locals.uciName, Null, NoRules)))
  /\ UNCHANGED <<router, appVars, routerVars, clientVars, arg, locals, pre, lastInit>>

----------------------------------------------------------------------------
(* SshUciClient.deleteRedirect, reached through deletePortForwarding *)

DeleteExit(out, id) ==
  IF out = "ok" /\ Resolve(staged, id) = {} THEN "exit" ELSE out

\* deletePortForwarding(id), up to its first remote request
DeletePortForwarding(id) ==
  /\ Begin("deletePortForwarding", id)
  /\ locals' = NoLocals
  /\ IF connectionMode = "ssh"
     THEN IF sshClient
          THEN Goto("deletePortForwarding", "delete")
          ELSE Finish(Thrown("TypeError"))
     ELSE Finish(Thrown("not implemented"))
  /\ UNCHANGED <<router, routerVars, clientVars, lastInit>>

DeletePortForwardingCall ==
  /\ \E id \in DeleteIds : DeletePortForwarding(id)
  /\ UNCHANGED appVars

\* exec(`uci delete firewall.${id}`)
DeleteSection ==
  /\ op = "deletePortForwarding" /\ pc = "delete"
  /\ \E o \in ExecOutcomes("delete") :
       LET out == DeleteExit(o, arg.a)
       IN /\ Issue("ssh", "delete", "", o, out)
          /\ IF out = "ok"
             THEN /\ staged' = UciDelete(staged, arg.a)
                  /\ Goto("deletePortForwarding", "commit")
             ELSE /\ Finish(Thrown(out))
                  /\ UNCHANGED staged
  /\ UNCHANGED <<router, appVars, committed, clientVars, arg, locals, pre, lastInit>>

\* exec('uci commit firewall')
DeleteCommit ==
  /\ op = "deletePortForwarding" /\ pc = "commit"
  /\ \E out \in ExecOutcomes("commit") :
       /\ Issue("ssh", "commit", "", out, out)
       /\ IF out = "ok"
          THEN /\ committed' = staged
               /\ Goto("deletePortForwarding", "reload")
          ELSE /\ Finish(Thrown(out))
               /\ UNCHANGED committed
  /\ UNCHANGED <<router, appVars, staged, clientVars, arg, locals, pre, lastInit>>

\* exec('/etc/init.d/firewall restart 2>/dev/null || true'); return { success: true }
DeleteReload ==
  /\ op = "deletePortForwarding" /\ pc = "reload"
  /\ \E out \in ExecOutcomes("reload") :
       /\ Issue("ssh", "reload", "", out, out)
       /\ Finish(ReloadOutcome(out, Returned(TRUE, Null, Null, NoRules)))
  /\ UNCHANGED <<router, appVars, routerVars, clientVars, arg, locals, pre, lastInit>>

----------------------------------------------------------------------------

Next ==
  \/ InitializeCall
  \/ InitSshProbe
  \/ InitRpcLogin
  \/ InitRpcCall
  \/ InitRpcLogin2
  \/ TestConnectionCall
  \/ TestSshProbe
  \/ GetPortForwardingsCall
  \/ GetRpcCall
  \/ GetShow
  \/ GetOption
  \/ AddPortForwardingCall
  \/ AddSection
  \/ AddSetOption
  \/ AddCommit
  \/ AddReload
  \/ DeletePortForwardingCall
  \/ DeleteSection
  \/ DeleteCommit
  \/ DeleteReload

Spec == Init /\ [][Next]_vars

----------------------------------------------------------------------------
(* SshUciClient.exec, event by event.  ExecOutcomes above is what its     *)
(* caller sees: "ok" a resolved promise, "exit" a rejection by the exit   *)
(* code, "conn" a rejection by the exec callback or the 'error' handler.  *)

\* The codes a closing stream reports; null when a signal ended the command.
ExitCodes == {"0", "1", "null"}

\* resolve / reject of a promise already settled have no effect.
Settle(promise, outcome) == IF promise = "pending" THEN outcome ELSE promise

\* Mutant: the connection is left as it is.
EndConn_Skip(cs, c) == cs

\* conn.end()
EndConn(cs, c) == [cs EXCEPT ![c] = "ended"]

\* exec(command): new Client(), the handlers, conn.connect({...})
\* this.timeout = config.timeout || 15000; 0 stands for an absent or falsy
\* config.timeout.
SshTimeoutOf(configTimeout) ==
  IF configTimeout = 0 THEN SshDefaultTimeout ELSE configTimeout

\* `waited` counts the ticks since the remote end was last heard of,
\* `timeout` is this.timeout, passed as readyTimeout and timeout, and
\* `timedOut` tells that the library gave up the handshake.
Exec(timeout) ==
  /\ Len(execs) < MaxExecs
  /\ conns' = Append(conns, "connecting")
  /\ execs' = Append(execs, [pc |-> "connect", promise |-> "pending",
                             conn |-> Len(conns) + 1,
                             timeout |-> timeout, waited |-> 0,
                             timedOut |-> FALSE])
  /\ UNCHANGED besidesExec

ExecCall == Exec(SshTimeoutOf(0))

\* conn.on('ready'): conn.exec(command, callback)
OnReady ==
  /\ \E e \in 1..Len(execs) :
       /\ execs[e].pc = "connect"
       /\ conns[execs[e].conn] = "connecting"
       /\ conns' = [conns EXCEPT ![execs[e].conn] = "ready"]
       /\ execs' = [execs EXCEPT ![e].pc = "exec", ![e].waited = 0]
  /\ UNCHANGED besidesExec

\* the callback of conn.exec: if (err) { conn.end(); return reject(err); }
OnExecCallback ==
  /\ \E e \in 1..Len(execs), err \in BOOLEAN :
       /\ execs[e].pc = "exec"
       /\ ~err => conns[execs[e].conn] = "ready"
       /\ IF err
          THEN /\ conns' = EndConn(conns, execs[e].conn)
               /\ execs' = [execs EXCEPT ![e].pc = "done",
                                         ![e].promise = Settle(@, "rejected")]
          ELSE /\ execs' = [execs EXCEPT ![e].pc = "stream", ![e].waited = 0]
               /\ UNCHANGED conns
  /\ UNCHANGED besidesExec

\* stream.on('close'): conn.end(); code === 0 ? resolve(...) : reject(...)
OnStreamClose ==
  /\ \E e \in 1..Len(execs), code \in ExitCodes :
       /\ execs[e].pc = "stream"
       /\ conns' = EndConn(conns, execs[e].conn)
       /\ execs' = [execs EXCEPT
                      ![e].pc = "done",
                      ![e].promise = Settle(@, IF code = "0" THEN "resolved"
                                               ELSE "rejected")]
  /\ UNCHANGED besidesExec

\* conn.on('error'): conn.end(); reject(err).  An open stream still closes.
OnError ==
  /\ \E e \in 1..Len(execs) :
       /\ execs[e].pc \in {"connect", "exec", "stream"}
       /\ conns[execs[e].conn] # "ended"
       /\ conns' = EndConn(conns, execs[e].conn)
       /\ execs' = [execs EXCEPT
                      ![e].pc = IF @ = "stream" THEN "stream" ELSE "done",
                      ![e].promise = Settle(@, "rejected")]
  /\ UNCHANGED besidesExec

ExecInit ==
  /\ Init
  /\ router = [ssh |-> TRUE, login |-> TRUE, call |-> TRUE]
  /\ staged = <<>>
  /\ connectionMode = "ssh"

ExecNext ==
  \/ ExecCall
  \/ OnReady
  \/ OnExecCallback
  \/ OnStreamClose
  \/ OnError

SpecExec == ExecInit /\ [][ExecNext]_vars

\* exec(command) of a client with any configured timeout
ExecTimed ==
  \E t \in {0, TickMs, DEFAULT_TIMEOUT} : Exec(SshTimeoutOf(t))

\* readyTimeout of call e is armed: the handshake is under way.
ReadyTimerArmed(e) ==
  execs[e].pc = "connect" /\ conns[execs[e].conn] = "connecting"

ExecDue(e) == execs[e].waited * TickMs >= execs[e].timeout
ExecOverdue(e) == execs[e].waited * TickMs > execs[e].timeout

\* Time passes while the remote end stays silent.  The handshake timer,
\* while armed, fires before time passes beyond it.
ExecTick ==
  /\ \E e \in 1..Len(execs) :
       /\ execs[e].promise = "pending"
       /\ execs[e].waited < MaxTicks
       /\ ~(ReadyTimerArmed(e) /\ ExecDue(e))
       /\ execs' = [execs EXCEPT ![e].waited = @ + 1]
  /\ UNCHANGED <<conns, besidesExec>>

\* readyTimeout: the library emits 'error' (timed out while waiting for the
\* handshake), which exec handles with conn.end() and reject(err).
OnReadyTimeout ==
  /\ \E e \in 1..Len(execs) :
       /\ ReadyTimerArmed(e) /\ ExecDue(e)
       /\ conns' = EndConn(conns, execs[e].conn)
       /\ execs' = [execs EXCEPT ![e].pc = "done",
                                 ![e].timedOut = TRUE,
                                 ![e].promise = Settle(@, "rejected")]
  /\ UNCHANGED besidesExec

ExecTimedNext ==
  \/ ExecTimed
  \/ OnReady
  \/ OnExecCallback
  \/ OnStreamClose
  \/ OnError
  \/ ExecTick
  \/ OnReadyTimeout

\* Time does pass, and the event loop runs a timer that is due.  Nothing
\* obliges the remote end to answer.
SpecExecTimed ==
  ExecInit /\ [][ExecTimedNext]_vars /\ WF_vars(ExecTick) /\ WF_vars(OnReadyTimeout)

----------------------------------------------------------------------------
(* Listing the rules of routers configured by other means: LuCI or a      *)
(* person at the shell creates named and anonymous redirect sections, and *)
(* leaves out the options that keep their default.                        *)

ListedSections ==
  { Section(DbName, OptionSet, DbName),
    Section(<<>>, OptionSet, <<"W">>),
    Section(<<>>, OptionSet \ {"name"}, <<>>),
    Section(<<>>, OptionSet \ {"enabled"}, <<"W">>) }

\* uci keeps the names of the sections of one configuration distinct.
ListedConfigs ==
  { c \in UNION {[1..n -> ListedSections] : n \in 0..MaxListed} :
      \A i, j \in 1..Len(c) : (i # j /\ c[i].secname # <<>>) => c[i].secname # c[j].secname }

\* A client bound to SSH by initialize(), before its first listing.
ListInit ==
  /\ router = [ssh |-> TRUE, login |-> FALSE, call |-> FALSE]
  /\ faults = 0
  /\ staged \in ListedConfigs
  /\ committed = staged
  /\ connectionMode = "ssh"
  /\ sshClient = TRUE
  /\ rpcClient = FALSE
  /\ authToken = Null
  /\ op = "idle"
  /\ pc = "-"
  /\ arg = NoArg
  /\ locals = NoLocals
  /\ log = <<>>
  /\ result = NoResult
  /\ pre = [mode |-> connectionMode]
  /\ lastInit = "ok"
  /\ AppIdle

ListNext ==
  \/ GetPortForwardingsCall
  \/ GetShow
  \/ GetOption

SpecList == ListInit /\ [][ListNext]_vars

----------------------------------------------------------------------------
(* router-encryption: strings, bytes and their encodings.  A JavaScript   *)
(* string is a sequence of UTF-16 code units, a Buffer a sequence of      *)
(* bytes, a hex string a sequence of characters.                          *)

IsHighSurrogate(u) == u >= 55296 /\ u <= 56319
IsLowSurrogate(u) == u >= 56320 /\ u <= 57343

\* The UTF-8 bytes of one code point.
Utf8OfCodePoint(cp) ==
  IF cp < 128 THEN <<cp>>
  ELSE IF cp < 2048 THEN <<192 + (cp \div 64), 128 + (cp % 64)>>
  ELSE IF cp < 65536
  THEN <<224 + (cp \div 4096), 128 + ((cp \div 64) % 64), 128 + (cp % 64)>>
  ELSE <<240 + (cp \div 262144), 128 + ((cp \div 4096) % 64),
         128 + ((cp \div 64) % 64), 128 + (cp % 64)>>

\* cipher.update(plaintext, 'utf8', ...): a surrogate pair is one code point,
\* a surrogate without its partner is written as U+FFFD.
RECURSIVE Utf8Encode(_)
Utf8Encode(s) ==
  IF s = <<>> THEN <<>>
  ELSE IF IsHighSurrogate(s[1]) /\ Len(s) >= 2 /\ IsLowSurrogate(s[2])
  THEN Utf8OfCodePoint(65536 + (s[1] - 55296) * 1024 + (s[2] - 56320))
         \o Utf8Encode(Tail(Tail(s)))
  ELSE IF IsHighSurrogate(s[1]) \/ IsLowSurrogate(s[1])
  THEN <<239, 191, 189>> \o Utf8Encode(Tail(s))
  ELSE Utf8OfCodePoint(s[1]) \o Utf8Encode(Tail(s))

IsContinuation(b, i) == i <= Len(b) /\ b[i] >= 128 /\ b[i] <= 191

\* decipher.update(..., 'utf8') + decipher.final('utf8'): bytes that are not
\* the start of a well-formed sequence are read as U+FFFD.
RECURSIVE Utf8Decode(_)
Utf8Decode(b) ==
  IF b = <<>> THEN <<>>
  ELSE IF b[1] < 128 THEN <<b[1]>> \o Utf8Decode(Tail(b))
  ELSE IF b[1] >= 192 /\ b[1] <= 223 /\ IsContinuation(b, 2)
  THEN <<(b[1] - 192) * 64 + (b[2] - 128)>> \o Utf8Decode(SubSeq(b, 3, Len(b)))
  ELSE IF b[1] >= 224 /\ b[1] <= 239 /\ IsContinuation(b, 2) /\ IsContinuation(b, 3)
  THEN <<(b[1] - 224) * 4096 + (b[2] - 128) * 64 + (b[3] - 128)>>
         \o Utf8Decode(SubSeq(b, 4, Len(b)))
  ELSE IF b[1] >= 240 /\ b[1] <= 247 /\ IsContinuation(b, 2)
          /\ IsContinuation(b, 3) /\ IsContinuation(b, 4)
  THEN LET cp == (b[1] - 240) * 262144 + (b[2] - 128) * 4096
                   + (b[3] - 128) * 64 + (b[4] - 128)
       IN <<55296 + ((cp - 65536) \div 1024), 56320 + ((cp - 65536) % 1024)>>
            \o Utf8Decode(SubSeq(b, 5, Len(b)))
  ELSE <<65533>> \o Utf8Decode(Tail(b))

HexDigits == <<"0", "1", "2", "3", "4", "5", "6", "7", "8", "9",
               "a", "b", "c", "d", "e", "f">>

UpperHexDigits == <<"0", "1", "2", "3", "4", "5", "6", "7", "8", "9",
                    "A", "B", "C", "D", "E", "F">>

\* buffer.toString('hex') / cipher.update(..., 'hex'): two lower-case digits
\* per byte.
RECURSIVE ToHex(_)
ToHex(b) ==
  IF b = <<>> THEN <<>>
  ELSE <<HexDigits[(b[1] \div 16) + 1], HexDigits[(b[1] % 16) + 1]>> \o ToHex(Tail(b))

IsHexChar(c) ==
  \E v \in 1..Len(HexDigits) : HexDigits[v] = c \/ UpperHexDigits[v] = c

HexValue(c) ==
  (CHOOSE v \in 1..Len(HexDigits) : HexDigits[v] = c \/ UpperHexDigits[v] = c) - 1

\* Buffer.from(text, 'hex') and the 'hex' input encoding of update: digits of
\* either case, decoding stops at the first pair that is not two hex digits.
RECURSIVE FromHex(_)
FromHex(t) ==
  IF Len(t) < 2 \/ ~IsHexChar(t[1]) \/ ~IsHexChar(t[2]) THEN <<>>
  ELSE <<HexValue(t[1]) * 16 + HexValue(t[2])>> \o FromHex(Tail(Tail(t)))

----------------------------------------------------------------------------
(* router-encryption: encrypt and decrypt.  AES-256-GCM itself belongs to *)
(* the crypto library; here a byte-wise keystream and a checksum over iv   *)
(* and ciphertext stand for it, under the one key getEncryptionKey()       *)
(* derives.  The checksum separates all the inputs tried here.             *)

RECURSIVE SumBytes(_)
SumBytes(b) == IF b = <<>> THEN 0 ELSE b[1] + SumBytes(Tail(b))

Keystream(iv, i) == (SumBytes(iv) + 31 * i) % 256

\* cipher.update + cipher.final
GcmEncrypt(iv, pt) == [i \in 1..Len(pt) |-> (pt[i] + Keystream(iv, i)) % 256]

\* Mutant: the ciphertext bytes are handed back as they are.
GcmDecrypt_Identity(iv, ct) == ct

\* decipher.update + decipher.final, once the tag has been accepted
GcmDecrypt(iv, ct) == [i \in 1..Len(ct) |-> (ct[i] + 256 - Keystream(iv, i)) % 256]

\* cipher.getAuthTag(): bytes that follow the values of iv and ciphertext
\* alternate with bytes that follow their lengths.
GcmTag(iv, ct) ==
  [j \in 1..TAG_LENGTH |->
     IF j % 2 = 1 THEN (SumBytes(iv) + SumBytes(ct) + 11 * j) % 256
     ELSE (Len(iv) + 17 * Len(ct) + 11 * j) % 256]

\* setAuthTag without an authTagLength option: the library takes the GCM tag
\* lengths, or, in builds that refuse short tags, the default length only.
TagLengths(shortTags) == IF shortTags THEN {4, 8, 12, 13, 14, 15, 16} ELSE {TAG_LENGTH}

\* crypto.randomBytes(IV_LENGTH): the values followed here.
IVs == { [i \in 1..IV_LENGTH |-> (17 * i) % 256],
         [i \in 1..IV_LENGTH |-> (250 + 3 * i) % 256] }

encrypt(plaintext, iv) ==
  IF plaintext = <<>>
  THEN [status |-> "throw", encrypted |-> <<>>, iv |-> <<>>, tag |-> <<>>]
  ELSE LET ct == GcmEncrypt(iv, Utf8Encode(plaintext))
       IN [status |-> "ok", encrypted |-> ToHex(ct), iv |-> ToHex(iv),
           tag |-> ToHex(GcmTag(iv, ct))]

decrypt(encryptedData, iv, tag, shortTags) ==
  LET ivBytes == FromHex(iv)
      tagBytes == FromHex(tag)
      ct == FromHex(encryptedData)
  IN IF encryptedData = <<>> \/ iv = <<>> \/ tag = <<>>
     THEN [status |-> "throw", value |-> <<>>]       \* 'Missing encryption parameters'
     ELSE IF ivBytes = <<>> \/ Len(tagBytes) \notin TagLengths(shortTags)
     THEN [status |-> "throw", value |-> <<>>]       \* createDecipheriv / setAuthTag
     ELSE IF SubSeq(GcmTag(ivBytes, ct), 1, Len(tagBytes)) # tagBytes
     THEN [status |-> "throw", value |-> <<>>]       \* decipher.final
     ELSE [status |-> "ok", value |-> Utf8Decode(GcmDecrypt(ivBytes, ct))]

encryptPassword(password, iv) ==
  LET r == encrypt(password, iv)
  IN [status |-> r.status, encryptedPassword |-> r.encrypted,
      encryptionIv |-> r.iv, encryptionTag |-> r.tag]

decryptPassword(storageObj, shortTags) ==
  decrypt(storageObj.encryptedPassword, storageObj.encryptionIv,
          storageObj.encryptionTag, shortTags)

\* Code units a password is made of: a, e-acute, and the two halves of the
\* surrogate pair of U+1F600.
PasswordUnits == {97, 233, 55357, 56832}

Passwords == UNION {[1..n -> PasswordUnits] : n \in 0..MaxPwLen}

\* Characters written over one character of a stored hex string.
TamperChars == {"0", "A", "g"}

TripleFields == {"encrypted", "iv", "tag"}

Encrypt ==
  /\ triple.status = "none"
  /\ \E p \in Passwords, iv \in IVs :
       /\ plain' = p
       /\ triple' = encrypt(p, iv)
  /\ UNCHANGED <<changed, opened, besidesCrypto>>

\* Someone with access to the stored row rewrites one character.
Tamper ==
  /\ triple.status = "ok" /\ ~changed /\ opened.status = "none"
  /\ \E f \in TripleFields :
       \E i \in 1..Len(triple[f]), c \in TamperChars :
         /\ c # triple[f][i]
         /\ triple' = [triple EXCEPT ![f][i] = c]
  /\ changed' = TRUE
  /\ UNCHANGED <<plain, opened, besidesCrypto>>

Decrypt ==
  /\ triple.status = "ok" /\ opened.status = "none"
  /\ \E shortTags \in BOOLEAN :
       opened' = decrypt(triple.encrypted, triple.iv, triple.tag, shortTags)
  /\ UNCHANGED <<plain, triple, changed, besidesCrypto>>

\* The values are dropped: the next password can be handled.
Forget ==
  /\ triple.status = "throw" \/ opened.status # "none"
  /\ plain' = <<>>
  /\ triple' = NoTriple
  /\ changed' = FALSE
  /\ opened' = NotOpened
  /\ UNCHANGED besidesCrypto

CryptoInit ==
  /\ Init
  /\ router = [ssh |-> TRUE, login |-> TRUE, call |-> TRUE]
  /\ staged = <<>>
  /\ connectionMode = "ssh"

CryptoNext ==
  \/ Encrypt
  \/ Tamper
  \/ Decrypt
  \/ Forget

SpecCrypto == CryptoInit /\ [][CryptoNext]_vars

----------------------------------------------------------------------------
(* Values of request bodies and of table columns *)

\* A JavaScript value of a request body: absent, a string, or a number.
JsUndefined == [t |-> "undefined", v |-> <<>>]
JsString(str) == [t |-> "string", v |-> str]
JsNumber == [t |-> "number", v |-> <<>>]

\* if (x): the empty string is falsy, the number followed here is not 0.
Truthy(x) == (x.t = "string" /\ x.v # <<>>) \/ x.t = "number"

\* A column value: NULL or a text.
SqlNull == [t |-> "null", v |-> <<>>]
SqlText(str) == [t |-> "text", v |-> str]

\* encrypt(password): cipher.update rejects what is not a string, and encrypt
\* turns every error into 'Failed to encrypt data'.
EncryptBodyPassword(password, iv) ==
  IF password.t = "string" THEN encryptPassword(password.v, iv)
  ELSE [status |-> "throw", encryptedPassword |-> <<>>,
        encryptionIv |-> <<>>, encryptionTag |-> <<>>]

ConfigRow(name, username, pw, iv, tag) ==
  [name |-> name, username |-> username, encrypted_password |-> pw,
   encryption_iv |-> iv, encryption_tag |-> tag]

----------------------------------------------------------------------------
(* Router configuration routes: POST /config, PUT /config/:id,            *)
(* DELETE /config/:id                                                     *)

ConfigNames == {"", "r", "s"}

BodyPasswords == {JsUndefined, JsString(<<>>), JsString(<<97>>), JsNumber}

Respond(handler, status) == response' = [handler |-> handler, status |-> status]

\* One `column = ?` or `column = NULL` of an UPDATE statement.
Assign(col, param) == [col |-> col, param |-> param]

\* The values bound to the `?` of the assignments, in order, then to the
\* `?` of WHERE id = ?.
ParamCount(updates) ==
  Cardinality({i \in 1..Len(updates) : updates[i].param}) + 1

\* The value the i-th assignment gives its column.
AssignedValue(updates, values, i) ==
  IF updates[i].param
  THEN values[Cardinality({j \in 1..i : updates[j].param})]
  ELSE SqlNull

\* db.prepare(`UPDATE ... SET ${updates.join(', ')} WHERE id = ?`).run(...values)
\* on one row: the statement runs only with as many values as it has `?`.
RunUpdate(row, updates, values) ==
  IF ParamCount(updates) # Len(values) THEN [status |-> "throw", row |-> row]
  ELSE [status |-> "ok",
        row |-> [c \in DOMAIN row |->
                   IF \E i \in 1..Len(updates) : updates[i].col = c
                   THEN LET i == CHOOSE i \in 1..Len(updates) :
                                   /\ updates[i].col = c
                                   /\ \A j \in (i + 1)..Len(updates) : updates[j].col # c
                        IN AssignedValue(updates, values, i)
                   ELSE row[c]]]

\* Mutant: only the ciphertext column is written.
PasswordColumns_First == <<"encrypted_password">>

\* The columns PUT writes for a password, in the code's order.
PasswordColumns == <<"encrypted_password", "encryption_iv", "encryption_tag">>

PasswordValue(e, col) ==
  IF col = "encrypted_password" THEN SqlText(e.encryptedPassword)
  ELSE IF col = "encryption_iv" THEN SqlText(e.encryptionIv)
  ELSE SqlText(e.encryptionTag)

\* POST /config
PostConfig ==
  /\ route = NoRoute /\ Len(configs) < MaxConfigs
  /\ \E name \in ConfigNames, password \in BodyPasswords, iv \in IVs :
       LET e == EncryptBodyPassword(password, iv)
       IN IF name = ""
          THEN Respond("postConfig", 400) /\ UNCHANGED configs
          ELSE IF Truthy(password) /\ e.status = "throw"
          THEN Respond("postConfig", 500) /\ UNCHANGED configs
          ELSE /\ configs' = Append(configs,
                    IF Truthy(password)
                    THEN ConfigRow(SqlText(name), SqlText("root"),
                                   SqlText(e.encryptedPassword),
                                   SqlText(e.encryptionIv), SqlText(e.encryptionTag))
                    ELSE ConfigRow(SqlText(name), SqlText("root"),
                                   SqlNull, SqlNull, SqlNull))
               /\ Respond("postConfig", 201)
  /\ UNCHANGED <<forwardings, route, apiVars, besidesRoutes>>

\* The updates and values PUT /config/:id builds from the body.
PutUpdates(name, password) ==
  (IF name # "" THEN <<Assign("name", TRUE)>> ELSE <<>>)
    \o (IF password = JsUndefined THEN <<>>
        ELSE [i \in 1..Len(PasswordColumns) |->
                Assign(PasswordColumns[i], Truthy(password))])

PutValues(name, password, e) ==
  (IF name # "" THEN <<SqlText(name)>> ELSE <<>>)
    \o (IF password = JsUndefined THEN <<>>
        ELSE IF Truthy(password)
        THEN [i \in 1..Len(PasswordColumns) |-> PasswordValue(e, PasswordColumns[i])]
        ELSE [i \in 1..Len(PasswordColumns) |-> SqlNull])

\* PUT /config/:id; a name of "" stands for a body without name.
Put(id, name, password, iv) ==
  /\ route = NoRoute
  /\ LET e == EncryptBodyPassword(password, iv)
         updates == PutUpdates(name, password)
         values == PutValues(name, password, e) \o <<SqlText("id")>>
     IN IF id > Len(configs)
        THEN Respond("putConfig", 404) /\ UNCHANGED configs
        ELSE IF Truthy(password) /\ e.status = "throw"
        THEN Respond("putConfig", 500) /\ UNCHANGED configs
        ELSE IF updates = <<>>
        THEN Respond("putConfig", 200) /\ UNCHANGED configs
        ELSE LET r == RunUpdate(configs[id], updates, values)
             IN IF r.status = "throw"
                THEN Respond("putConfig", 500) /\ UNCHANGED configs
                ELSE /\ configs' = [configs EXCEPT ![id] = r.row]
                     /\ Respond("putConfig", 200)
  /\ UNCHANGED <<forwardings, route, apiVars, besidesRoutes>>

PutConfig ==
  \E id \in 1..MaxConfigs, name \in ConfigNames, password \in BodyPasswords,
     iv \in IVs : Put(id, name, password, iv)

\* DELETE /config/:id
DeleteConfig ==
  /\ route = NoRoute
  /\ \E id \in 1..MaxConfigs :
       IF id > Len(configs)
       THEN Respond("deleteConfig", 404) /\ UNCHANGED dbVars
       ELSE /\ forwardings' = SelectSeq(forwardings, LAMBDA f : f.router_id # id)
            /\ configs' = RemoveAt(configs, id)
            /\ Respond("deleteConfig", 200)
  /\ UNCHANGED <<route, apiVars, besidesRoutes>>

ConfigInit ==
  /\ Init
  /\ router = [ssh |-> TRUE, login |-> TRUE, call |-> TRUE]
  /\ staged = <<>>
  /\ connectionMode = "auto"

ConfigNext ==
  \/ PostConfig
  \/ PutConfig
  \/ DeleteConfig

SpecConfig == ConfigInit /\ [][ConfigNext]_vars

----------------------------------------------------------------------------
(* Forwarding routes: POST /config/:id/forwardings, POST /config/:id/sync. *)
(* A handler creates its own client, awaits initialize() and the adds,    *)
(* which run request by request as above, and then writes its rows.       *)

JsNull == [t |-> "null", v |-> <<>>]
JsValue(val) == [t |-> "value", v |-> val]

\* The properties of the object addRedirect returns: { success, id }.
AddResultKeys == {"success", "id"}

\* result.<key>: a property the object does not have reads as undefined.
ResultProperty(r, key) == IF key \in AddResultKeys THEN JsValue(r[key]) ELSE JsUndefined

\* Binding a value to a `?`: null and texts are stored as they are; for
\* undefined the database library either stores NULL or refuses the value.
BindOutcomes(x) == IF x.t = "undefined" THEN {"null", "throw"} ELSE {"stored"}

Bound2Sql(x, outcome) ==
  IF outcome = "null" \/ x.t = "null" THEN SqlNull ELSE SqlText(x.v)

\* config.username && config.encrypted_password
HasCredentials(row) ==
  row.username # SqlNull /\ row.encrypted_password # SqlNull

\* !name || !externalPort || !internalIp || !internalPort
DetailsGiven(c) ==
  c.name # <<>> /\ c.externalPort # 0 /\ c.internalIp # <<>> /\ c.internalPort # 0

\* A row of port_forwardings.  `added` is not a column: it records that an
\* add for this rule returned from the router client without error.
ForwardingRow(id, c, uciName, added) ==
  [router_id |-> id, cfg |-> c, uci_name |-> uciName, added |-> added]

\* The router configurations the forwarding routes work for: one with a
\* stored password, one without.
StoredConfigs ==
  LET e == encryptPassword(<<97>>, CHOOSE iv \in IVs : TRUE)
  IN { <<ConfigRow(SqlText("r"), SqlText("root"), SqlText(e.encryptedPassword),
                   SqlText(e.encryptionIv), SqlText(e.encryptionTag))>>,
       <<ConfigRow(SqlText("r"), SqlText("root"), SqlNull, SqlNull, SqlNull)>> }

\* createClientFromDbConfig: new OpenWrtClient({..., connectionMode: 'auto'});
\* initialize() is its next step.
NewClient ==
  /\ op = "idle"
  /\ connectionMode' = "auto"
  /\ sshClient' = FALSE
  /\ rpcClient' = FALSE
  /\ authToken' = Null
  /\ arg' = NoArg
  /\ log' = <<>>
  /\ result' = NoResult
  /\ pre' = [mode |-> "auto"]
  /\ lastInit' = "none"
  /\ UNCHANGED <<router, faults, routerVars, op, pc, locals>>

Awaiting(kind, id, c, todo, at) ==
  [kind |-> kind, id |-> id, cfg |-> c, todo |-> todo, at |-> at]

\* POST /config/:id/forwardings, up to the creation of the client
PostForwarding ==
  /\ route = NoRoute /\ op = "idle" /\ Len(forwardings) < MaxForwardings
  /\ \E id \in 1..MaxConfigs, c \in AddConfigs :
       IF id > Len(configs)
       THEN /\ Respond("postForwarding", 404)
            /\ UNCHANGED <<forwardings, route, apiVars>>
       ELSE IF ~DetailsGiven(c)
       THEN /\ Respond("postForwarding", 400)
            /\ UNCHANGED <<forwardings, route, apiVars>>
       ELSE IF ~HasCredentials(configs[id])
       THEN /\ forwardings' = Append(forwardings, ForwardingRow(id, c, SqlNull, FALSE))
            /\ Respond("postForwarding", 201)
            /\ UNCHANGED <<route, apiVars>>
       ELSE /\ NewClient
            /\ route' = Awaiting("post", id, c, <<>>, "init")
            /\ UNCHANGED <<forwardings, response>>
  /\ UNCHANGED <<configs, besidesRoutes>>

\* await client.initialize(), first step
RouteInitialize ==
  /\ route # NoRoute /\ route.at = "init" /\ arg = NoArg
  /\ InitializeCall

\* const result = await client.addPortForwarding({...}), first step
PostAdd ==
  /\ route # NoRoute /\ route.kind = "post" /\ route.at = "init"
  /\ Finished("initialize") /\ result.status = "ok"
  /\ AddPortForwarding(route.cfg)
  /\ route' = [route EXCEPT !.at = "add"]
  /\ UNCHANGED <<dbVars, response, besidesRoutes>>

\* uciName = result.uciName, or the catch; then the INSERT and the response
PostSave ==
  /\ route # NoRoute /\ route.kind = "post" /\ op = "idle"
  /\ \/ route.at = "init" /\ Finished("initialize") /\ result.status = "throw"
     \/ route.at = "add"
  /\ LET addOk == route.at = "add" /\ result.status = "ok"
         uciName == IF addOk THEN ResultProperty(result, "uciName") ELSE JsNull
     IN \E b \in BindOutcomes(uciName) :
          IF b = "throw"
          THEN Respond("postForwarding", 500) /\ UNCHANGED forwardings
          ELSE /\ forwardings' = Append(forwardings,
                    ForwardingRow(route.id, route.cfg, Bound2Sql(uciName, b), addOk))
               /\ Respond("postForwarding", 201)
  /\ route' = NoRoute
  /\ UNCHANGED <<configs, apiVars, besidesRoutes>>

\* POST /config/:id/sync, up to the creation of the client
SyncRequest ==
  /\ route = NoRoute /\ op = "idle"
  /\ \E id \in 1..MaxConfigs :
       IF id > Len(configs)
       THEN Respond("sync", 404) /\ UNCHANGED <<route, apiVars>>
       ELSE IF ~HasCredentials(configs[id])
       THEN Respond("sync", 400) /\ UNCHANGED <<route, apiVars>>
       ELSE /\ NewClient
            /\ route' = Awaiting("sync", id, <<>>, <<>>, "init")
            /\ UNCHANGED response
  /\ UNCHANGED <<dbVars, besidesRoutes>>

\* The rows `WHERE router_id = ? AND uci_name IS NULL`, by position.
Unsynced(id) ==
  LET RECURSIVE From(_)
      From(i) ==
        IF i > Len(forwardings) THEN <<>>
        ELSE IF forwardings[i].router_id = id /\ forwardings[i].uci_name = SqlNull
        THEN <<i>> \o From(i + 1)
        ELSE From(i + 1)
  IN From(1)

\* createClientFromDbConfig returned or threw; the rows to sync are read
SyncSelect ==
  /\ route # NoRoute /\ route.kind = "sync" /\ route.at = "init"
  /\ Finished("initialize")
  /\ IF result.status = "throw"
     THEN Respond("sync", 500) /\ route' = NoRoute
     ELSE route' = [route EXCEPT !.todo = Unsynced(route.id), !.at = "loop"]
            /\ UNCHANGED response
  /\ UNCHANGED <<dbVars, apiVars, besidesRoutes>>

\* for (const fw of forwardings): await client.addPortForwarding({...})
SyncAdd ==
  /\ route # NoRoute /\ route.kind = "sync" /\ route.at = "loop"
  /\ route.todo # <<>>
  /\ AddPortForwarding(forwardings[Head(route.todo)].cfg)
  /\ route' = [route EXCEPT !.at = "add"]
  /\ UNCHANGED <<dbVars, response, besidesRoutes>>

\* UPDATE port_forwardings SET uci_name = ? ... .run(result.uciName, fw.id),
\* or the catch of this row
SyncRecord ==
  /\ route # NoRoute /\ route.kind = "sync" /\ route.at = "add" /\ op = "idle"
  /\ LET i == Head(route.todo)
         uciName == ResultProperty(result, "uciName")
     IN IF result.status = "throw"
        THEN UNCHANGED forwardings
        ELSE \E b \in BindOutcomes(uciName) :
               forwardings' = [forwardings EXCEPT
                  ![i].added = TRUE,
                  ![i].uci_name = IF b = "throw" THEN @ ELSE Bound2Sql(uciName, b)]
  /\ route' = [route EXCEPT !.todo = Tail(@), !.at = "loop"]
  /\ UNCHANGED <<configs, response, apiVars, besidesRoutes>>

\* res.json({ message, ...results })
SyncDone ==
  /\ route # NoRoute /\ route.kind = "sync" /\ route.at = "loop"
  /\ route.todo = <<>>
  /\ Respond("sync", 200)
  /\ route' = NoRoute
  /\ UNCHANGED <<dbVars, apiVars, besidesRoutes>>

RoutesInit ==
  /\ ApiInit
  /\ staged = <<>>
  /\ connectionMode = "auto"
  /\ ExecIdle /\ CryptoIdle /\ RoutesIdle /\ RpcIdle /\ ParseIdle
  /\ configs \in StoredConfigs
  /\ forwardings = <<>>

RoutesNext ==
  \/ PostForwarding
  \/ RouteInitialize
  \/ InitSshProbe
  \/ InitRpcLogin
  \/ InitRpcCall
  \/ InitRpcLogin2
  \/ PostAdd
  \/ AddSection
  \/ AddSetOption
  \/ AddCommit
  \/ AddReload
  \/ PostSave
  \/ SyncRequest
  \/ SyncSelect
  \/ SyncAdd
  \/ SyncRecord
  \/ SyncDone

SpecRoutes == RoutesInit /\ [][RoutesNext]_vars

----------------------------------------------------------------------------
(* The fetch of an RPC request, followed in time.  Two clients issue RPC    *)
(* requests: OpenWrtRpcClient (authenticate, callRpc) and the single-class  *)
(* OpenWrtClient (callRpc, used by its authenticate and uci).               *)

RpcClasses == {"OpenWrtRpcClient", "OpenWrtClient"}

\* config.timeout of the client: 0 stands for an absent or falsy value.
ConfigTimeouts == {0, TickMs, DEFAULT_TIMEOUT}

\* this.timeout = config.timeout || DEFAULT_TIMEOUT
TimeoutOf(configTimeout) ==
  IF configTimeout = 0 THEN DEFAULT_TIMEOUT ELSE configTimeout

\* Whether the options given to fetch name a timeout at all.
\* OpenWrtRpcClient: { method, headers, body }; OpenWrtClient: { ..., timeout }.
PassesTimeout(class) == class = "OpenWrtClient"

\* The library acts on the timeout only when the option is passed and the
\* imported node-fetch knows the option (version 2 does, version 3 does not).
Enforced(class, honours) == PassesTimeout(class) /\ honours

Call(class, method, timeout, enforced) ==
  [class |-> class, method |-> method, timeout |-> timeout, enforced |-> enforced,
   state |-> "pending", elapsed |-> 0]

Pending(i) == i <= Len(calls) /\ calls[i].state = "pending"

\* The configured timeout of request i has elapsed / has been exceeded.
Due(i) == calls[i].elapsed * TickMs >= calls[i].timeout
Overdue(i) == calls[i].elapsed * TickMs > calls[i].timeout

\* await fetch(url, {...}): a request is sent; the caller awaits it, so a
\* client has one request in flight.
RpcFetch ==
  /\ Len(calls) < MaxCalls
  /\ \A i \in 1..Len(calls) : ~Pending(i)
  /\ \E class \in RpcClasses, method \in {"login", "call"},
        t \in ConfigTimeouts, honours \in BOOLEAN :
       calls' = Append(calls, Call(class, method, TimeoutOf(t), Enforced(class, honours)))
  /\ UNCHANGED besidesRpc

\* Time passes while the request is unanswered.  A timer the library has
\* armed fires before time passes beyond it.
Tick ==
  /\ \E i \in 1..Len(calls) :
       /\ Pending(i)
       /\ calls[i].elapsed < MaxTicks
       /\ ~(calls[i].enforced /\ Due(i))
       /\ calls' = [calls EXCEPT ![i].elapsed = @ + 1]
  /\ UNCHANGED besidesRpc

\* The response arrives: success, a non-success status, or an error payload.
RpcResponse ==
  /\ \E i \in 1..Len(calls), out \in {"ok", "http", "error"} :
       /\ Pending(i)
       /\ calls' = [calls EXCEPT ![i].state = out]
  /\ UNCHANGED besidesRpc

\* The library abandons the request: fetch rejects with a timeout error.
FetchTimeout ==
  /\ \E i \in 1..Len(calls) :
       /\ Pending(i)
       /\ calls[i].enforced /\ Due(i)
       /\ calls' = [calls EXCEPT ![i].state = "timeout"]
  /\ UNCHANGED besidesRpc

\* The transport fails on its own account (connection refused or reset, a
\* limit of the HTTP stack): fetch rejects with a network error.
FetchFails ==
  /\ \E i \in 1..Len(calls) :
       /\ Pending(i)
       /\ calls' = [calls EXCEPT ![i].state = "network"]
  /\ UNCHANGED besidesRpc

RpcInit ==
  /\ Init
  /\ router = [ssh |-> FALSE, login |-> TRUE, call |-> TRUE]
  /\ staged = <<>>
  /\ connectionMode = "rpc"

RpcNext ==
  \/ RpcFetch
  \/ Tick
  \/ RpcResponse
  \/ FetchTimeout
  \/ FetchFails

\* Time does pass, and the event loop runs a timer that is due.
SpecRpc == RpcInit /\ [][RpcNext]_vars /\ WF_vars(Tick) /\ WF_vars(FetchTimeout)

----------------------------------------------------------------------------
(* Adding a rule while somebody else adds a redirect section.  Two         *)
(* implementations add a rule: SshUciClient.addRedirect above, and the     *)
(* addPortForwarding of the single-class OpenWrtClient, which speaks RPC,  *)
(* renames the new section and sets the options by name.                   *)

\* uci rename firewall.@redirect[-1]=<name>
UciRenameLast(secs, name) == [secs EXCEPT ![Len(secs)].secname = name]

\* The sections `firewall.<name>` denotes.
Named(secs, name) == {i \in 1..Len(secs) : secs[i].secname = name}

\* uci set firewall.<name>.<opt>=<val>
UciSetNamed(secs, name, opt, val) ==
  LET i == CHOOSE j \in Named(secs, name) : TRUE
  IN [secs EXCEPT ![i] = [@ EXCEPT !.opts = @ \cup {opt},
                                   !.nameval = IF opt = "name" THEN val ELSE @]]

\* The RPC answers with an error payload when the section does not exist.
NamedExit(out, secs, name) ==
  IF out = "ok" /\ Named(secs, name) = {} THEN "error" ELSE out

\* The value the k-th set of the RPC implementation writes.
RpcOptionValue(k, c) == IF Options[k] = "name" THEN c.name ELSE <<>>

\* OpenWrtClient.addPortForwarding(config) over RPC, up to its first request
RpcAddCall ==
  /\ \E c \in {a \in AddConfigs : a.name # <<>>} :
       /\ Begin("rpcAddPortForwarding", c)
       /\ IF authToken = Null
          THEN /\ locals' = NoLocals
               /\ Goto("rpcAddPortForwarding", "login")
          ELSE IF ~ValidConfig(c)
          THEN /\ locals' = NoLocals
               /\ Finish(Thrown("invalid"))
          ELSE /\ Len(staged) < MaxSections
               /\ locals' = [NoLocals EXCEPT !.uciName = generateUciName(c.name)]
               /\ Goto("rpcAddPortForwarding", "add")
  /\ UNCHANGED <<router, appVars, routerVars, clientVars, lastInit>>

\* if (!this.authToken) await this.authenticate(); then the validation
RpcAddLogin ==
  /\ op = "rpcAddPortForwarding" /\ pc = "login"
  /\ \E out \in LoginOutcomes :
       /\ Issue("rpc", "login", "", out, out)
       /\ IF out # "ok"
          THEN /\ Finish(Thrown(out))
               /\ UNCHANGED <<authToken, locals>>
          ELSE /\ authToken' = Token
               /\ IF ~ValidConfig(arg.a)
                  THEN Finish(Thrown("invalid")) /\ UNCHANGED locals
                  ELSE /\ Len(staged) < MaxSections
                       /\ locals' = [NoLocals EXCEPT !.uciName = generateUciName(arg.a.name)]
                       /\ Goto("rpcAddPortForwarding", "add")
  /\ UNCHANGED <<router, appVars, routerVars, connectionMode, sshClient, rpcClient,
                 arg, pre, lastInit>>

\* this.uci('add', ['firewall', 'redirect'])
RpcAddSection ==
  /\ op = "rpcAddPortForwarding" /\ pc = "add"
  /\ \E out \in CallOutcomes :
       /\ Issue("rpc", "add", "", out, out)
       /\ IF out = "ok"
          THEN staged' = UciAdd(staged) /\ Goto("rpcAddPortForwarding", "rename")
          ELSE Finish(Thrown(out)) /\ UNCHANGED staged
  /\ UNCHANGED <<router, appVars, committed, clientVars, arg, locals, pre, lastInit>>

\* this.uci('rename', ['firewall', '@redirect[-1]', uciName])
RpcAddRename ==
  /\ op = "rpcAddPortForwarding" /\ pc = "rename"
  /\ \E out \in CallOutcomes :
       /\ Issue("rpc", "rename", "", out, out)
       /\ IF out = "ok"
          THEN /\ staged' = UciRenameLast(staged, locals.uciName)
               /\ locals' = [locals EXCEPT !.k = 1]
               /\ Goto("rpcAddPortForwarding", "set")
          ELSE /\ Finish(Thrown(out))
               /\ UNCHANGED <<staged, locals>>
  /\ UNCHANGED <<router, appVars, committed, clientVars, arg, pre, lastInit>>

\* for (const op of setOps): this.uci('set', ['firewall', uciName, option, value])
RpcAddSetOption ==
  /\ op = "rpcAddPortForwarding" /\ pc = "set"
  /\ \E o \in CallOutcomes :
       LET out == NamedExit(o, staged, locals.uciName)
           opt == Options[locals.k]
       IN /\ Issue("rpc", "set", opt, o, out)
          /\ IF out = "ok"
             THEN /\ staged' = UciSetNamed(staged, locals.uciName, opt,
                                           RpcOptionValue(locals.k, arg.a))
                  /\ IF locals.k < Len(Options)
                     THEN /\ locals' = [locals EXCEPT !.k = @ + 1]
                          /\ Goto("rpcAddPortForwarding", "set")
                     ELSE /\ UNCHANGED locals
                          /\ Goto("rpcAddPortForwarding", "commit")
             ELSE /\ Finish(Thrown(out))
                  /\ UNCHANGED <<staged, locals>>
  /\ UNCHANGED <<router, appVars, committed, clientVars, arg, pre, lastInit>>

\* this.uci('commit', ['firewall']); return { success: true, uciName, message }
RpcAddCommit ==
  /\ op = "rpcAddPortForwarding" /\ pc = "commit"
  /\ \E out \in CallOutcomes :
       /\ Issue("rpc", "commit", "", out, out)
       /\ IF out = "ok"
          THEN /\ committed' = staged
               /\ Finish(Returned(TRUE, locals.uciName, "rpc", NoRules))
          ELSE /\ Finish(Thrown(out))
               /\ UNCHANGED committed
  /\ UNCHANGED <<router, appVars, staged, clientVars, arg, locals, pre, lastInit>>

AddInProgress == op \in {"addPortForwarding", "rpcAddPortForwarding"}

\* Somebody else (another client instance, a person at the router's shell)
\* runs `uci add firewall redirect` after the add in progress has created
\* its section and before it has returned.
ForeignAdd ==
  /\ AddInProgress /\ pc \in {"rename", "set", "commit", "reload"}
  /\ Len(staged) - 1 < MaxForeign
  /\ staged' = UciAdd(staged)
  /\ UNCHANGED <<router, faults, committed, clientVars, op, pc, arg, locals, log,
                 result, pre, lastInit, appVars>>

\* Both clients ready on a router without redirect sections: initialize()
\* has bound the SSH driver, the RPC client may have logged in or not.
RaceInit ==
  /\ router = [ssh |-> TRUE, login |-> TRUE, call |-> TRUE]
  /\ faults = 0
  /\ staged = <<>>
  /\ committed = <<>>
  /\ connectionMode = "ssh"
  /\ sshClient = TRUE
  /\ rpcClient = FALSE
  /\ authToken \in {Null, Token}
  /\ op = "idle"
  /\ pc = "-"
  /\ arg = NoArg
  /\ locals = NoLocals
  /\ log = <<>>
  /\ result = NoResult
  /\ pre = [mode |-> "ssh"]
  /\ lastInit = "ok"
  /\ AppIdle

RaceNext ==
  \/ AddPortForwardingCall
  \/ AddSection
  \/ AddSetOption
  \/ AddCommit
  \/ AddReload
  \/ RpcAddCall
  \/ RpcAddLogin
  \/ RpcAddSection
  \/ RpcAddRename
  \/ RpcAddSetOption
  \/ RpcAddCommit
  \/ ForeignAdd

SpecRace == RaceInit /\ [][RaceNext]_vars

----------------------------------------------------------------------------
(* parseRouterUrl.  Strings are sequences of characters.                   *)

SchemeSep == <<":", "/", "/">>

\* s.startsWith(pat) at position i
OccursAt(s, pat, i) ==
  /\ i + Len(pat) - 1 <= Len(s)
  /\ \A j \in 1..Len(pat) : s[i + j - 1] = pat[j]

Occurrences(s, pat) == {i \in 1..Len(s) : OccursAt(s, pat, i)}

\* s.includes(pat)
Includes(s, pat) == Occurrences(s, pat) # {}

Least(S) == CHOOSE i \in S : \A j \in S : i <= j

\* s.split(sep): the pieces between the occurrences of sep, left to right
RECURSIVE Split(_, _)
Split(s, sep) ==
  IF ~Includes(s, sep) THEN <<s>>
  ELSE LET i == Least(Occurrences(s, sep))
       IN <<SubSeq(s, 1, i - 1)>> \o Split(SubSeq(s, i + Len(sep), Len(s)), sep)

IsDigit(c) == \E d \in 1..Len(Digits) : Digits[d] = c

DigitValue(c) == (CHOOSE d \in 1..Len(Digits) : Digits[d] = c) - 1

\* The digits s holds from position i on
RECURSIVE DigitRun(_, _)
DigitRun(s, i) ==
  IF i <= Len(s) /\ IsDigit(s[i]) THEN <<s[i]>> \o DigitRun(s, i + 1) ELSE <<>>

\* s.match(/:(\d+)/): the positions where the pattern matches
PortMatches(s) ==
  {i \in 1..Len(s) : s[i] = ":" /\ i < Len(s) /\ IsDigit(s[i + 1])}

\* portMatch[1] of the leftmost match
PortCapture(s) == DigitRun(s, Least(PortMatches(s)) + 1)

\* parseInt(digits, 10)
RECURSIVE parseInt(_)
parseInt(ds) ==
  IF ds = <<>> THEN 0
  ELSE 10 * parseInt(SubSeq(ds, 1, Len(ds) - 1)) + DigitValue(ds[Len(ds)])

\* url without a scheme and without a port: hostname = url
HostWithoutPort(s) == s

PortOf(s) ==
  IF PortMatches(s) # {} THEN parseInt(PortCapture(s)) ELSE DefaultSshPort

parseRouterUrl(u) ==
  IF Includes(u, SchemeSep)
  THEN LET withoutProtocol == Split(u, SchemeSep)[2]
       IN [hostname |-> IF PortMatches(withoutProtocol) # {}
                        THEN Split(withoutProtocol, <<":">>)[1]
                        ELSE Split(withoutProtocol, <<"/">>)[1],
           port |-> PortOf(withoutProtocol)]
  ELSE [hostname |-> IF PortMatches(u) # {}
                     THEN Split(u, <<":">>)[1]
                     ELSE HostWithoutPort(u),
        port |-> PortOf(u)]

\* The addresses parsed: scheme, host, port and path, each optional but the host.
Schemes == {<<>>, <<"h", "t", "t", "p">> \o SchemeSep}
Hosts == {<<"r">>, <<"r", ".", "l">>, <<"1", ".", "2">>}
PortDigits == {"8", "0"}
PortTexts ==
  {<<>>} \cup UNION {[1..n -> PortDigits] : n \in 1..MaxPortDigits}
Paths == {<<>>, <<"/", "x">>, <<"/", "x", ":", "8">>}

Address(scheme, host, port, path) ==
  [scheme |-> scheme, host |-> host, port |-> port, path |-> path]

\* The address as it is written.
TextOf(a) ==
  a.scheme \o a.host \o (IF a.port = <<>> THEN <<>> ELSE <<":">> \o a.port) \o a.path

\* parseRouterUrl(config.url) in the constructor of OpenWrtClient
ParseUrl ==
  /\ \E scheme \in Schemes, host \in Hosts, port \in PortTexts, path \in Paths :
       LET a == Address(scheme, host, port, path)
           r == parseRouterUrl(TextOf(a))
       IN /\ url' = a
          /\ parsed' = [hostname |-> r.hostname, port |-> r.port]
  /\ UNCHANGED besidesParse

ParseInit ==
  /\ Init
  /\ router = [ssh |-> TRUE, login |-> TRUE, call |-> TRUE]
  /\ staged = <<>>
  /\ connectionMode = "auto"

ParseNext == ParseUrl

SpecParse == ParseInit /\ [][ParseNext]_vars

----------------------------------------------------------------------------
(* Adds and deletes on a router that already holds a committed redirect    *)
(* section: an add that fails leaves what it staged, and the operations     *)
(* after it commit.                                                         *)

\* addPortForwarding(config) on the router with one section more than usual
AddBesideCommitted ==
  /\ \E c \in AddConfigs : AddPortForwardingUpTo(c, MaxSections + 1)
  /\ UNCHANGED appVars

\* The client bound to SSH by initialize(), the router holding one section.
CommitInit ==
  /\ router = [ssh |-> TRUE, login |-> FALSE, call |-> FALSE]
  /\ faults = 0
  /\ staged = <<Section(DbName, OptionSet, DbName)>>
  /\ committed = staged
  /\ connectionMode = "ssh"
  /\ sshClient = TRUE
  /\ rpcClient = FALSE
  /\ authToken = Null
  /\ op = "idle"
  /\ pc = "-"
  /\ arg = NoArg
  /\ locals = NoLocals
  /\ log = <<>>
  /\ result = NoResult
  /\ pre = [mode |-> "ssh"]
  /\ lastInit = "ok"
  /\ AppIdle

CommitNext ==
  \/ AddBesideCommitted
  \/ AddSection
  \/ AddSetOption
  \/ AddCommit
  \/ AddReload
  \/ DeletePortForwardingCall
  \/ DeleteSection
  \/ DeleteCommit
  \/ DeleteReload

SpecCommit == CommitInit /\ [][CommitNext]_vars

----------------------------------------------------------------------------
(* Deleting stored rules: DELETE /forwardings/:id and POST /batch with     *)
(* operation 'delete'.  Rows are named by their position in the table.     *)

\* `uci delete firewall.${forwarding.uci_name}`
UciIdOf(row) == NamedId(row.uci_name.v)

\* DELETE FROM port_forwardings WHERE id = ?
DeleteRow(i) == forwardings' = RemoveAt(forwardings, i)

\* The positions still to visit, after the row at position i is gone.
RECURSIVE Shifted(_, _)
Shifted(todo, i) ==
  IF todo = <<>> THEN <<>>
  ELSE <<IF Head(todo) > i THEN Head(todo) - 1 ELSE Head(todo)>> \o Shifted(Tail(todo), i)

\* The lists of forwardingIds a batch request names.
BatchIds ==
  UNION {{ids \in [1..n -> 1..MaxForwardings] :
            \A a, b \in 1..n : a # b => ids[a] # ids[b]} : n \in 1..MaxBatch}

\* config?.username && config?.encrypted_password
ConfigHasCredentials(id) == id <= Len(configs) /\ HasCredentials(configs[id])

\* DELETE /forwardings/:id, up to the creation of the client
DeleteForwarding ==
  /\ route = NoRoute /\ op = "idle"
  /\ \E i \in 1..MaxForwardings :
       IF i > Len(forwardings)
       THEN /\ Respond("deleteForwarding", 404)
            /\ UNCHANGED <<forwardings, route, apiVars>>
       ELSE IF forwardings[i].uci_name # SqlNull
               /\ ConfigHasCredentials(forwardings[i].router_id)
       THEN /\ NewClient
            /\ route' = Awaiting("delete", forwardings[i].router_id,
                                 forwardings[i].cfg, <<i>>, "init")
            /\ UNCHANGED <<forwardings, response>>
       ELSE /\ DeleteRow(i)
            /\ Respond("deleteForwarding", 200)
            /\ UNCHANGED <<route, apiVars>>
  /\ UNCHANGED <<configs, besidesRoutes>>

\* await client.deletePortForwarding(forwarding.uci_name), first step
DeleteOnRouter ==
  /\ route # NoRoute /\ route.kind = "delete" /\ route.at = "init"
  /\ Finished("initialize") /\ result.status = "ok"
  /\ DeletePortForwarding(UciIdOf(forwardings[Head(route.todo)]))
  /\ route' = [route EXCEPT !.at = "del"]
  /\ UNCHANGED <<dbVars, response, besidesRoutes>>

\* The catch that only warns, then `DELETE FROM port_forwardings` and the response
DeleteLocally ==
  /\ route # NoRoute /\ route.kind = "delete" /\ op = "idle"
  /\ \/ route.at = "init" /\ Finished("initialize") /\ result.status = "throw"
     \/ route.at = "del"
  /\ DeleteRow(Head(route.todo))
  /\ Respond("deleteForwarding", 200)
  /\ route' = NoRoute
  /\ UNCHANGED <<configs, apiVars, besidesRoutes>>

\* POST /batch with operation 'delete', up to the creation of the client
BatchDelete ==
  /\ route = NoRoute /\ op = "idle"
  /\ \E id \in 1..MaxConfigs, ids \in BatchIds :
       IF id > Len(configs)
       THEN /\ Respond("batch", 404)
            /\ UNCHANGED <<route, apiVars>>
       ELSE IF HasCredentials(configs[id])
       THEN /\ NewClient
            /\ route' = Awaiting("batch", id, <<>>, ids, "init")
            /\ UNCHANGED response
       ELSE /\ route' = Awaiting("batch", id, <<>>, ids, "local")
            /\ UNCHANGED <<response, apiVars>>
  /\ UNCHANGED <<dbVars, besidesRoutes>>

\* createClientFromDbConfig returned or threw
BatchClient ==
  /\ route # NoRoute /\ route.kind = "batch" /\ route.at = "init"
  /\ Finished("initialize")
  /\ IF result.status = "throw"
     THEN Respond("batch", 500) /\ route' = NoRoute
     ELSE route' = [route EXCEPT !.at = "loop"] /\ UNCHANGED response
  /\ UNCHANGED <<dbVars, apiVars, besidesRoutes>>

\* The row `WHERE id = ? AND router_id = ?` of the id visited is there.
BatchRowFound ==
  /\ Head(route.todo) <= Len(forwardings)
  /\ forwardings[Head(route.todo)].router_id = route.id

\* One round of the loop that needs no router call: the row is missing
\* (continue), or it has no uci_name or there is no client (delete locally).
BatchLocal ==
  /\ route # NoRoute /\ route.kind = "batch" /\ route.at \in {"loop", "local"}
  /\ route.todo # <<>>
  /\ IF ~BatchRowFound
     THEN /\ route' = [route EXCEPT !.todo = Tail(@)]
          /\ UNCHANGED forwardings
     ELSE /\ forwardings[Head(route.todo)].uci_name = SqlNull \/ route.at = "local"
          /\ DeleteRow(Head(route.todo))
          /\ route' = [route EXCEPT !.todo = Shifted(Tail(@), Head(@))]
  /\ UNCHANGED <<configs, response, apiVars, besidesRoutes>>

\* case 'delete': await client.deletePortForwarding(forwarding.uci_name), first step
BatchOnRouter ==
  /\ route # NoRoute /\ route.kind = "batch" /\ route.at = "loop"
  /\ route.todo # <<>> /\ BatchRowFound
  /\ forwardings[Head(route.todo)].uci_name # SqlNull
  /\ DeletePortForwarding(UciIdOf(forwardings[Head(route.todo)]))
  /\ route' = [route EXCEPT !.at = "del"]
  /\ UNCHANGED <<dbVars, response, besidesRoutes>>

\* The router call returned: delete the row; or it threw: results.failed++
BatchRecord ==
  /\ route # NoRoute /\ route.kind = "batch" /\ route.at = "del" /\ op = "idle"
  /\ IF result.status = "throw"
     THEN /\ route' = [route EXCEPT !.todo = Tail(@), !.at = "loop"]
          /\ UNCHANGED forwardings
     ELSE /\ DeleteRow(Head(route.todo))
          /\ route' = [route EXCEPT !.todo = Shifted(Tail(@), Head(@)), !.at = "loop"]
  /\ UNCHANGED <<configs, response, apiVars, besidesRoutes>>

\* res.json(results)
BatchDone ==
  /\ route # NoRoute /\ route.kind = "batch" /\ route.at \in {"loop", "local"}
  /\ route.todo = <<>>
  /\ Respond("batch", 200)
  /\ route' = NoRoute
  /\ UNCHANGED <<dbVars, apiVars, besidesRoutes>>

\* The stored rules the delete routes find: one that names the router's
\* section 'db', and possibly one that exists locally only.
StoredForwardings ==
  LET c == AddConfig(DbName, <<10, 0, 0, 5>>, 8080, 80)
  IN { <<ForwardingRow(1, c, SqlText(DbName), TRUE)>>,
       <<ForwardingRow(1, c, SqlText(DbName), TRUE), ForwardingRow(1, c, SqlNull, FALSE)>> }

DeleteInit ==
  /\ ApiInit
  /\ staged = <<Section(DbName, OptionSet, DbName)>>
  /\ connectionMode = "auto"
  /\ ExecIdle /\ CryptoIdle /\ RoutesIdle /\ RpcIdle /\ ParseIdle
  /\ configs \in StoredConfigs
  /\ forwardings \in StoredForwardings

DeleteNext ==
  \/ DeleteForwarding
  \/ RouteInitialize
  \/ InitSshProbe
  \/ InitRpcLogin
  \/ InitRpcCall
  \/ InitRpcLogin2
  \/ DeleteOnRouter
  \/ DeleteSection
  \/ DeleteCommit
  \/ DeleteReload
  \/ DeleteLocally
  \/ BatchDelete
  \/ BatchClient
  \/ BatchLocal
  \/ BatchOnRouter
  \/ BatchRecord
  \/ BatchDone

SpecDelete == DeleteInit /\ [][DeleteNext]_vars

----------------------------------------------------------------------------
(* Vocabulary of the properties *)

CrudMethods == {"getPortForwardings", "addPortForwarding", "deletePortForwarding"}

Cmds(l) == [i \in 1..Len(l) |-> l[i].cmd]

AllOk(l) == \A i \in 1..Len(l) : l[i].out = "ok"

Count(l, t, cmd) == Cardinality({i \in 1..Len(l) : l[i].t = t /\ l[i].cmd = cmd})

Answered(l, cmd) == \A i \in 1..Len(l) : l[i].cmd = cmd => l[i].out = "ok"

\* The driver of the transport `mode` exists: the client is bound to it.
Bound(mode) ==
  \/ mode = "ssh" /\ sshClient
  \/ mode = "rpc" /\ rpcClient

----------------------------------------------------------------------------
(* C1: once connectionMode is 'ssh' or 'rpc', a testConnection() call,      *)
(* whatever its outcome, leaves connectionMode as it was at the call.       *)
C1_ModePinned ==
  (Finished("testConnection") /\ pre.mode \in {"ssh", "rpc"})
    => connectionMode = pre.mode

(* C2: in auto mode the first request of initialize() is the SSH probe, no  *)
(* RPC request precedes it, and when that probe succeeds initialize() has   *)
(* returned with connectionMode 'ssh' having issued no RPC request.         *)
C2_SshProbedFirst ==
  (arg.kind = "initialize" /\ pre.mode = "auto" /\ log # <<>>)
    => /\ log[1].t = "ssh" /\ log[1].cmd = "probe"
       /\ log[1].out = "ok"
            => /\ op = "idle"
               /\ result.status = "ok"
               /\ connectionMode = "ssh"
               /\ Count(log, "rpc", "login") = 0
               /\ Count(log, "rpc", "call") = 0

C2_Witness ==
  /\ Finished("initialize") /\ pre.mode = "auto"
  /\ log = <<Req("ssh", "probe", "", "ok")>>
  /\ connectionMode = "ssh"
  /\ router.login /\ router.call

(* C3 as stated: in auto mode, when the router rejects SSH authentication   *)
(* and accepts every RPC login, initialize() ends with connectionMode 'rpc' *)
(* after exactly one failed SSH probe.                                      *)
C3_FallbackOnLoginAlone ==
  (Finished("initialize") /\ pre.mode = "auto" /\ ~router.ssh
     /\ Answered(log, "login"))
    => /\ connectionMode = "rpc"
       /\ Count(log, "ssh", "probe") = 1

(* C3 amended: when moreover the uci request of the RPC probe is answered   *)
(* with a success status, initialize() returns with connectionMode 'rpc'    *)
(* after one failed SSH probe, a login, the probe request and a second      *)
(* login; when that request is refused initialize() throws and              *)
(* connectionMode stays 'auto'.                                             *)
C3_FallbackOnLoginAndCall ==
  (Finished("initialize") /\ pre.mode = "auto" /\ ~router.ssh
     /\ Answered(log, "login"))
    => IF Answered(log, "call")
       THEN /\ result.status = "ok"
            /\ connectionMode = "rpc"
            /\ log = <<Req("ssh", "probe", "", "conn"), Req("rpc", "login", "", "ok"),
                       Req("rpc", "call", "", "ok"), Req("rpc", "login", "", "ok")>>
       ELSE /\ result.status = "throw"
            /\ connectionMode = "auto"
            /\ Count(log, "ssh", "probe") = 1

C3_Witness ==
  /\ Finished("initialize") /\ pre.mode = "auto" /\ ~router.ssh
  /\ connectionMode = "rpc"
  /\ Len(log) = 4 /\ log[1].out = "conn"

(* C4: after an auto-mode initialize() whose SSH probe and RPC probe both   *)
(* failed, a later get/add/delete call issues no request and throws, until  *)
(* initialize() is called again.                                            *)
C4_UnreachableFailsFast ==
  (lastInit = "unreachable" /\ arg.kind \in CrudMethods)
    => /\ log = <<>>
       /\ op = "idle" => result.status = "throw"

(* C5 as stated: with an explicit preference initialize() issues no request *)
(* to the other transport and throws when the preferred transport cannot    *)
(* connect.                                                                 *)
C5_ExplicitFailsWhenUnreachable ==
  (Finished("initialize") /\ pre.mode \in {"ssh", "rpc"})
    => /\ \A i \in 1..Len(log) : log[i].t = pre.mode
       /\ (pre.mode = "ssh" /\ ~router.ssh) => result.status = "throw"
       /\ (pre.mode = "rpc" /\ ~router.login) => result.status = "throw"

(* C5, what the code does instead: called with connectionMode 'ssh' or      *)
(* 'rpc', initialize() creates that transport's driver, issues no request   *)
(* to either transport, leaves connectionMode unchanged and returns without *)
(* error, whether or not the router can be reached through that transport.  *)
C5_ExplicitBindsWithoutProbe ==
  (Finished("initialize") /\ pre.mode \in {"ssh", "rpc"})
    => /\ log = <<>>
       /\ result.status = "ok"
       /\ connectionMode = pre.mode
       /\ Bound(pre.mode)

C5_Witness ==
  /\ Finished("initialize") /\ pre.mode = "rpc"
  /\ ~router.login /\ ~router.ssh
  /\ result.status = "ok" /\ rpcClient /\ ~sshClient

\* The contract of the SSH driver, read for a client bound to `mode`: a CRUD
\* method whose requests were all answered successfully went to the driver,
\* returned, listed one rule per redirect section, and an add left a section
\* carrying the returned identifier.
CrudContract(mode) ==
  (op = "idle" /\ arg.kind \in CrudMethods /\ pre.mode = mode /\ Bound(mode)
     /\ AllOk(log))
    => /\ log # <<>>
       /\ result.status = "ok"
       /\ arg.kind = "getPortForwardings" => Len(result.rules) = Len(staged)
       /\ arg.kind = "addPortForwarding"
            => /\ result.id # Null
               /\ staged # <<>>
               /\ staged[Len(staged)].nameval = result.id

(* C6: for list, add and delete, a client bound to the RPC transport        *)
(* dispatches to its driver and gives the result and the effect on the      *)
(* router's redirect sections that a client bound to SSH gives.             *)
C6_TransportParity == CrudContract("rpc")

(* C6, the reference side: the SSH-bound client meets the contract.         *)
C6_SshMeetsContract == CrudContract("ssh")

(* C7: in SSH mode a successful add issued exactly: add section, rename     *)
(* section, 8 field sets, commit, firewall reload, and returns a non-null   *)
(* section identifier.                                                      *)
C7_AddCommandOrder ==
  (Finished("addPortForwarding") /\ pre.mode = "ssh" /\ result.status = "ok")
    => /\ Cmds(log) = <<"add", "rename", "set", "set", "set", "set", "set",
                        "set", "set", "set", "commit", "reload">>
       /\ result.id # Null

(* C8: an add whose internalIp is not a dotted quad of octets, or whose     *)
(* externalPort or internalPort is outside [1, 65535], issues no remote     *)
(* request at all and fails.                                                *)
C8_InvalidInputIssuesNothing ==
  (arg.kind = "addPortForwarding" /\ Bound(pre.mode) /\ ~ValidConfig(arg.a))
    => /\ log = <<>>
       /\ op = "idle" => result.status = "throw"

(* C9: when the commit of an add or a delete succeeded, the method returns  *)
(* a success result even if the firewall reload that follows fails.         *)
C9_ReloadFailureNotRaised ==
  (op = "idle" /\ arg.kind \in {"addPortForwarding", "deletePortForwarding"}
     /\ \E i \in 1..Len(log) : log[i].cmd = "commit" /\ log[i].out = "ok")
    => result.status = "ok"

(* C10: when an add created its section on the router and a later field    *)
(* set or the commit failed, the caller still receives the identifier of    *)
(* the created section.                                                     *)
C10_SectionIdDelivered ==
  (Finished("addPortForwarding") /\ log # <<>>
     /\ log[1].cmd = "add" /\ log[1].out = "ok")
    => result.id # Null

(* C11: every exec call has a connection of its own, created by that call,  *)
(* and once the call's promise has resolved or rejected that connection has *)
(* been ended; no connection serves two calls.                              *)
C11_ConnectionPerExec ==
  /\ Len(conns) = Len(execs)
  /\ \A e \in 1..Len(execs) :
       /\ execs[e].conn \in 1..Len(conns)
       /\ \A f \in 1..Len(execs) : f # e => execs[f].conn # execs[e].conn
       /\ execs[e].promise # "pending" => conns[execs[e].conn] = "ended"

C11_Witness ==
  /\ Len(execs) = 3
  /\ execs[1].promise = "resolved"
  /\ execs[2].promise = "rejected" /\ execs[2].pc = "stream"
  /\ execs[3].promise = "rejected" /\ execs[3].pc = "done"
  /\ \A c \in 1..Len(conns) : conns[c] = "ended"

\* A request of the listing failed: the connection or the authentication
\* ("conn"), or a command on a router that does hold redirect sections.
ListFailed(l) ==
  \E i \in 1..Len(l) :
    l[i].out = "conn" \/ (l[i].out = "exit" /\ staged # <<>>)

(* C12: when a connection, authentication or command failure occurs during *)
(* a listing in SSH mode, getPortForwardings() throws; it does not return   *)
(* a rule list.                                                             *)
C12_ListFailureRaised ==
  (Finished("getPortForwardings") /\ pre.mode = "ssh" /\ sshClient
     /\ ListFailed(log))
    => result.status = "throw"

(* C13: a listing in SSH mode on a router that accepts the login, none of  *)
(* whose requests failed in transit, returns one rule per redirect section  *)
(* of the router, in the order shown, and the rule of a section without a   *)
(* name option carries the name made from its section identifier; no        *)
(* section is left out for a missing field.                                 *)
C13_OneRulePerSection ==
  (Finished("getPortForwardings") /\ pre.mode = "ssh" /\ sshClient
     /\ router.ssh /\ faults = 0)
    => /\ result.status = "ok"
       /\ Len(result.rules) = Len(staged)
       /\ \A i \in 1..Len(result.rules) :
            /\ result.rules[i].id = ShownId(staged, i)
            /\ "name" \notin staged[i].opts
                 => result.rules[i].name = <<"R", " ">> \o IdText(ShownId(staged, i))

\* No surrogate code unit without its partner.
RECURSIVE WellFormed(_)
WellFormed(s) ==
  IF s = <<>> THEN TRUE
  ELSE IF IsHighSurrogate(s[1])
  THEN Len(s) >= 2 /\ IsLowSurrogate(s[2]) /\ WellFormed(Tail(Tail(s)))
  ELSE ~IsLowSurrogate(s[1]) /\ WellFormed(Tail(s))

(* C18 as stated: for every non-empty password p, decrypt of the triple    *)
(* that encrypt(p) returned, unmodified and under the same key, returns p.  *)
C18_RoundTrip ==
  (plain # <<>> /\ ~changed /\ opened.status # "none")
    => opened = [status |-> "ok", value |-> plain]

(* C18 amended: for every non-empty password p that is a well-formed       *)
(* UTF-16 string, decrypt of the unmodified triple returns p; a password    *)
(* with an unpaired surrogate comes back with U+FFFD in its place.          *)
C18_RoundTripWellFormed ==
  (plain # <<>> /\ ~changed /\ opened.status # "none")
    => /\ opened.status = "ok"
       /\ WellFormed(plain) => opened.value = plain
       /\ ~WellFormed(plain) => opened.value = Utf8Decode(Utf8Encode(plain))
       /\ ~WellFormed(plain) => opened.value # plain

C18_Witness ==
  /\ plain = <<233, 55357, 56832>> \/ plain = <<55357, 56832>>
  /\ ~changed
  /\ opened = [status |-> "ok", value |-> plain]

(* C19: when one character of the ciphertext, the iv or the tag that       *)
(* encrypt produced has been changed, decrypt raises an error; it returns   *)
(* no plaintext for the modified triple.                                    *)
C19_TamperRaises ==
  (changed /\ opened.status # "none") => opened.status = "throw"

(* C20: after any sequence of create, update and delete requests, every    *)
(* stored router configuration has encrypted_password, encryption_iv and    *)
(* encryption_tag all set or all NULL.                                      *)
C20_EncryptionFieldsTogether ==
  \A id \in 1..Len(configs) :
    /\ (configs[id].encrypted_password = SqlNull) = (configs[id].encryption_iv = SqlNull)
    /\ (configs[id].encryption_iv = SqlNull) = (configs[id].encryption_tag = SqlNull)

\* One row with the three fields, one with none, and a PUT just refused.
C20_Witness ==
  /\ Len(configs) = 2
  /\ configs[1].encrypted_password # SqlNull /\ configs[1].encryption_tag # SqlNull
  /\ configs[2].encrypted_password = SqlNull /\ configs[2].encryption_tag = SqlNull
  /\ response = [handler |-> "putConfig", status |-> 500]

(* C14: between requests, a stored forwarding has a non-null uci_name      *)
(* exactly when an add of that rule on the router completed successfully;   *)
(* a rule whose add failed is stored with uci_name NULL.                    *)
C14_UciNameIffAdded ==
  route = NoRoute
    => \A i \in 1..Len(forwardings) :
         (forwardings[i].uci_name # SqlNull) = forwardings[i].added

\* The step issues a request of kind t, cmd; `out` is what its caller sees.
Sends(t, cmd) ==
  /\ Len(log') = Len(log) + 1
  /\ log'[Len(log')].t = t
  /\ log'[Len(log')].cmd = cmd

(* C15: every uci RPC call is sent with a token stored by a login that      *)
(* succeeded (params: [this.authToken, 'uci', ...]), and a login answered   *)
(* with an error payload or a non-success status raises and stores no token.*)
C15_CallsCarryToken ==
  [][ /\ Sends("rpc", "call") => authToken = Token
      /\ (Sends("rpc", "login") /\ log'[Len(log')].out # "ok")
           => (authToken' = authToken /\ result'.status = "throw") ]_vars

(* C16: an RPC request (login or uci) that gets no response is failed with  *)
(* a timeout error once the client's configured timeout has elapsed: at no  *)
(* time is a request still waiting with more than its timeout elapsed.      *)
C16_RpcCallsTimeOut ==
  \A i \in 1..Len(calls) : Pending(i) => ~Overdue(i)

\* The options the add in progress (or just finished) has set successfully.
OptionsSet ==
  {log[i].opt : i \in {j \in 1..Len(log) : log[j].cmd = "set" /\ log[j].out = "ok"}}

(* C17: when another redirect section is added while an add is in progress, *)
(* every option the add sets is on the section this add created, and none   *)
(* is on the other section.                                                 *)
C17_FieldsLandOnOwnSection ==
  (Len(staged) >= 1 /\ arg.kind \in {"addPortForwarding", "rpcAddPortForwarding"}
     /\ log # <<>> /\ OptionsSet # {})
    => /\ staged[1].opts = OptionsSet
       /\ \A i \in 2..Len(staged) : staged[i].opts = {} /\ staged[i].secname = <<>>

(* C21: for an address made of an optional scheme, a host, an optional      *)
(* ':port' and an optional path, parseRouterUrl returns the host component  *)
(* alone and, as port, the explicit port if one is given and 22 otherwise.  *)
C21_HostAndPort ==
  url # NoUrl
    => /\ parsed.hostname = url.host
       /\ parsed.port = IF url.port = <<>> THEN DefaultSshPort ELSE parseInt(url.port)

\* The requests of kind t the last method issued, and those that succeeded.
Probes(t) == {i \in 1..Len(log) : log[i].t = t}
ProbeOk(t) == \E i \in Probes(t) : log[i].out = "ok"

(* C22: testConnection() tries SSH first and, when the SSH probe fails,     *)
(* tries JSON-RPC: it reports success with mode 'rpc' when the RPC probe    *)
(* succeeds, and reports failure only when both transports failed.          *)
C22_TestFallsBackToRpc ==
  (Finished("testConnection") /\ ~ProbeOk("ssh"))
    => /\ Probes("rpc") # {}
       /\ ProbeOk("rpc") => (result.success /\ result.mode = "rpc")
       /\ ~result.success => ~ProbeOk("rpc")

(* C23: updating an existing router configuration with an empty-string     *)
(* password succeeds and leaves encrypted_password, encryption_iv and       *)
(* encryption_tag of that configuration all NULL.                           *)
C23_EmptyPasswordClears ==
  [][ \A id \in 1..MaxConfigs, name \in ConfigNames, iv \in IVs :
        (id <= Len(configs) /\ Put(id, name, JsString(<<>>), iv))
          => /\ response'.status = 200
             /\ configs'[id].encrypted_password = SqlNull
             /\ configs'[id].encryption_iv = SqlNull
             /\ configs'[id].encryption_tag = SqlNull ]_vars

\* The method in progress has had a request of transport t answered with success.
ProbedOk(t, l) == \E i \in 1..Len(l) : l[i].t = t /\ l[i].out = "ok"

(* C24: in auto mode connectionMode becomes 'ssh' or 'rpc' only by a probe  *)
(* of that same transport that reported success; a probe that reported      *)
(* failure never binds the client, in initialize() or in testConnection().  *)
C24_BoundByOwnProbe ==
  [][ (connectionMode = "auto" /\ connectionMode' # "auto")
        => ProbedOk(connectionMode', log') ]_vars

(* C25: in SSH mode the identifier a successful addPortForwarding returns   *)
(* designates the section that call created: `uci delete firewall.<id>`     *)
(* finds a section and removes exactly the one the add appended, so the     *)
(* redirect sections are again those from before the add.                   *)
C25_AddThenDelete ==
  (Finished("addPortForwarding") /\ pre.mode = "ssh" /\ result.status = "ok")
    => LET id == NamedId(result.id)
       IN /\ Resolve(staged, id) = {Len(staged)}
          /\ DeleteExit("ok", id) = "ok"
          /\ UciDelete(staged, id) = SubSeq(staged, 1, Len(staged) - 1)

\* Every section of `secs` is a section of `olds`.
Within(secs, olds) ==
  \A i \in 1..Len(secs) : \E j \in 1..Len(olds) : secs[i] = olds[j]

(* C26: the commit of an add or of a delete makes permanent only that       *)
(* operation's own changes: a delete's commit removes one committed section *)
(* and brings in none, an add's commit brings in one section; what an       *)
(* earlier add that failed had staged never becomes committed by it.        *)
C26_CommitOwnChangesOnly ==
  [][ committed' # committed
        => IF op = "deletePortForwarding"
           THEN Len(committed') = Len(committed) - 1 /\ Within(committed', committed)
           ELSE /\ Len(committed') = Len(committed) + 1
                /\ SubSeq(committed', 1, Len(committed)) = committed ]_vars

\* This step removes the stored rule at position i.
Removes(i) ==
  /\ i <= Len(forwardings)
  /\ Len(forwardings') = Len(forwardings) - 1
  /\ forwardings' = RemoveAt(forwardings, i)

C29_SyncStoresUciName ==
  [][ (/\ route # NoRoute /\ route.kind = "sync" /\ route.at = "add"
       /\ op = "idle" /\ result.status = "ok"
       /\ route' # route)
        => /\ forwardings'[Head(route.todo)].uci_name # SqlNull
           /\ Head(route.todo) \notin {Unsynced(route.id)[k] : k \in 1..Len(Unsynced(route.id))}' ]_vars

(* C30: every exec call eventually resolves or rejects, also when the       *)
(* remote end never answers: at no time is a call still pending with the    *)
(* remote end silent for longer than the configured timeout.                *)
C30_ExecSettles ==
  \A e \in 1..Len(execs) :
    execs[e].promise = "pending" => ~ExecOverdue(e)

====
